---- MODULE Spec2Model ----
(***************************************************************************)
(* Repository context analyzer of pr-agent and its on-disk TTL cache.      *)
(*                                                                         *)
(*   src/pr_agent/algo/repo_context.py        analyzer and provider        *)
(*   src/pr_agent/algo/repo_context_cache.py  file cache                   *)
(*                                                                         *)
(* Python strings that the code takes apart (paths, repository names,      *)
(* source text) are sequences of one-character strings, so that replace,   *)
(* split, dirname, splitext and normpath are computed as Python computes   *)
(* them.  The platform is POSIX: os.sep is "/".                            *)
(***************************************************************************)
EXTENDS Integers, Sequences, FiniteSets, TLC

(***************************************************************************)
(* Bounds of the model.                                                    *)
(***************************************************************************)
\* time.time() is a float; the clock of the model counts fractions of a
\* second, TicksPerSec of them to the second.
TicksPerSec == 2
\* The clock runs from 0 to MaxNow ticks.
MaxNow == 4
\* The modified files of a pull request are MaxModified at most.
MaxModified == 1

(***************************************************************************)
(* Python str and os.path (posixpath) on character sequences.              *)
(***************************************************************************)
SetMin(S) == CHOOSE x \in S : \A y \in S : x <= y
SetMax(S) == CHOOSE x \in S : \A y \in S : x >= y

\* s[i:i+len(sub)] == sub
IsAt(s, sub, i) ==
    /\ i >= 1
    /\ i + Len(sub) - 1 <= Len(s)
    /\ \A j \in 1..Len(sub) : s[i + j - 1] = sub[j]

\* str.find(sub, from): the first index >= from where sub occurs, 0 if none
Find(s, sub, from) ==
    LET hits == {i \in from..(Len(s) - Len(sub) + 1) : IsAt(s, sub, i)}
    IN  IF hits = {} THEN 0 ELSE SetMin(hits)

\* str.rfind(ch): the last index of the character ch, 0 if none
RFind(s, ch) ==
    LET hits == {i \in 1..Len(s) : s[i] = ch}
    IN  IF hits = {} THEN 0 ELSE SetMax(hits)

\* sub in s
Contains(s, sub) == Find(s, sub, 1) # 0

StartsWith(s, p) == IsAt(s, p, 1)

EndsWith(s, p) == Len(p) <= Len(s) /\ IsAt(s, p, Len(s) - Len(p) + 1)

\* str.replace(old, new), old non-empty: leftmost non-overlapping occurrences
RECURSIVE Replace(_, _, _)
Replace(s, old, new) ==
    LET i == Find(s, old, 1)
    IN  IF i = 0 THEN s
        ELSE SubSeq(s, 1, i - 1) \o new
                 \o Replace(SubSeq(s, i + Len(old), Len(s)), old, new)

\* str.split(sep), sep non-empty: "" splits to [""]
RECURSIVE Split(_, _)
Split(s, sep) ==
    LET i == Find(s, sep, 1)
    IN  IF i = 0 THEN <<s>>
        ELSE <<SubSeq(s, 1, i - 1)>> \o Split(SubSeq(s, i + Len(sep), Len(s)), sep)

\* sep.join(parts)
RECURSIVE Join(_, _)
Join(parts, sep) ==
    IF parts = <<>> THEN <<>>
    ELSE IF Len(parts) = 1 THEN parts[1]
    ELSE parts[1] \o sep \o Join(Tail(parts), sep)

IsSpace(c) == c \in {" ", "\n", "\t", "\r"}

\* str.lstrip(), str.rstrip(), str.strip()
RECURSIVE LStrip(_)
LStrip(s) == IF s # <<>> /\ IsSpace(s[1]) THEN LStrip(Tail(s)) ELSE s

RECURSIVE RStrip(_)
RStrip(s) ==
    IF s # <<>> /\ IsSpace(s[Len(s)]) THEN RStrip(SubSeq(s, 1, Len(s) - 1)) ELSE s

Strip(s) == LStrip(RStrip(s))

\* str.lstrip(ch), str.rstrip(ch) for one character
RECURSIVE LStripChar(_, _)
LStripChar(s, ch) == IF s # <<>> /\ s[1] = ch THEN LStripChar(Tail(s), ch) ELSE s

RECURSIVE RStripChar(_, _)
RStripChar(s, ch) ==
    IF s # <<>> /\ s[Len(s)] = ch
    THEN RStripChar(SubSeq(s, 1, Len(s) - 1), ch) ELSE s

\* posixpath.basename
basename(p) == SubSeq(p, RFind(p, "/") + 1, Len(p))

\* posixpath.dirname
dirname(p) ==
    LET head == SubSeq(p, 1, RFind(p, "/"))
    IN  IF head # <<>> /\ (\E i \in 1..Len(head) : head[i] # "/")
        THEN RStripChar(head, "/") ELSE head

\* genericpath._splitext: <<root, ext>>; leading dots of the basename are
\* not an extension
splitext(p) ==
    LET sepIndex == RFind(p, "/")
        dotIndex == RFind(p, ".")
    IN  IF dotIndex > sepIndex
           /\ \E i \in (sepIndex + 1)..(dotIndex - 1) : p[i] # "."
        THEN <<SubSeq(p, 1, dotIndex - 1), SubSeq(p, dotIndex, Len(p))>>
        ELSE <<p, <<>>>>

\* posixpath.join(a, b)
pathjoin(a, b) ==
    IF StartsWith(b, <<"/">>) THEN b
    ELSE IF a = <<>> \/ EndsWith(a, <<"/">>) THEN a \o b
    ELSE a \o <<"/">> \o b

\* posixpath.normpath: the loop over the components
RECURSIVE NormComps(_, _, _)
NormComps(comps, acc, initial_slashes) ==
    IF comps = <<>> THEN acc
    ELSE LET comp == comps[1]
             rest == Tail(comps)
         IN  IF comp = <<>> \/ comp = <<".">>
             THEN NormComps(rest, acc, initial_slashes)
             ELSE IF \/ comp # <<".", ".">>
                     \/ (~initial_slashes /\ acc = <<>>)
                     \/ (acc # <<>> /\ acc[Len(acc)] = <<".", ".">>)
             THEN NormComps(rest, Append(acc, comp), initial_slashes)
             ELSE IF acc # <<>>
             THEN NormComps(rest, SubSeq(acc, 1, Len(acc) - 1), initial_slashes)
             ELSE NormComps(rest, acc, initial_slashes)

\* posixpath.normpath
normpath(p) ==
    IF p = <<>> THEN <<".">>
    ELSE LET initial_slashes == StartsWith(p, <<"/">>)
             joined == Join(NormComps(Split(p, <<"/">>), <<>>, initial_slashes),
                            <<"/">>)
             path == IF initial_slashes THEN <<"/">> \o joined ELSE joined
         IN  IF path = <<>> THEN <<".">> ELSE path

(***************************************************************************)
(* Python re: the patterns of the import scanners are concatenations of    *)
(* items, each a character class with a quantifier, matched by             *)
(* backtracking in Python's order of preference.                           *)
(***************************************************************************)
LowerChars ==
    {"a", "b", "c", "d", "e", "f", "g", "h", "i", "j", "k", "l", "m", "n",
     "o", "p", "q", "r", "s", "t", "u", "v", "w", "x", "y", "z"}
UpperChars ==
    {"A", "B", "C", "D", "E", "F", "G", "H", "I", "J", "K", "L", "M", "N",
     "O", "P", "Q", "R", "S", "T", "U", "V", "W", "X", "Y", "Z"}
DigitChars ==
    {"0", "1", "2", "3", "4", "5", "6", "7", "8", "9"}
SpaceChars == {" ", "\n", "\t", "\r"}
QuoteChars == {"'", "\""}

\* Character classes: the characters of `chars`, or with neg all others.
Cls(chars) == [neg |-> FALSE, chars |-> chars]
NotCls(chars) == [neg |-> TRUE, chars |-> chars]
InCls(cls, c) == IF cls.neg THEN c \notin cls.chars ELSE c \in cls.chars

\* Items: "bol" is ^ under re.MULTILINE; "one" a single character; "plus"
\* and "star" greedy repetitions; "lazy" is *?; cap marks the group.
ReBol == [q |-> "bol", cls |-> Cls({}), cap |-> FALSE]
ReOne(cls) == [q |-> "one", cls |-> cls, cap |-> FALSE]
RePlus(cls) == [q |-> "plus", cls |-> cls, cap |-> FALSE]
ReStar(cls) == [q |-> "star", cls |-> cls, cap |-> FALSE]
ReLazy(cls) == [q |-> "lazy", cls |-> cls, cap |-> FALSE]
ReGroupPlus(cls) == [q |-> "plus", cls |-> cls, cap |-> TRUE]

\* a literal word as items
ReLit(word) == [i \in 1..Len(word) |-> ReOne(Cls({word[i]}))]

ReFail == [ok |-> FALSE, end |-> 0, cap |-> <<>>]

\* the length of the longest run of characters of cls in s from pos
RECURSIVE RunLen(_, _, _)
RunLen(cls, s, pos) ==
    IF pos <= Len(s) /\ InCls(cls, s[pos]) THEN 1 + RunLen(cls, s, pos + 1) ELSE 0

\* The match of items idx.. of pattern at pos of s: [ok, end, cap], end the
\* position after the match, cap the text of the group.
RECURSIVE ReMatch(_, _, _, _)
ReMatch(pattern, idx, s, pos) ==
    IF idx > Len(pattern) THEN [ok |-> TRUE, end |-> pos, cap |-> <<>>]
    ELSE LET item == pattern[idx]
         IN  IF item.q = "bol"
             THEN IF pos = 1 \/ s[pos - 1] = "\n"
                  THEN ReMatch(pattern, idx + 1, s, pos) ELSE ReFail
             ELSE IF item.q = "one"
             THEN IF pos <= Len(s) /\ InCls(item.cls, s[pos])
                  THEN ReMatch(pattern, idx + 1, s, pos + 1) ELSE ReFail
             ELSE LET least == IF item.q = "plus" THEN 1 ELSE 0
                      most == RunLen(item.cls, s, pos)
                      fits == {n \in least..most :
                                  ReMatch(pattern, idx + 1, s, pos + n).ok}
                  IN  IF fits = {} THEN ReFail
                      ELSE LET n == IF item.q = "lazy" THEN SetMin(fits)
                                    ELSE SetMax(fits)
                               rest == ReMatch(pattern, idx + 1, s, pos + n)
                           IN  IF item.cap
                               THEN [rest EXCEPT !.cap = SubSeq(s, pos, pos + n - 1)]
                               ELSE rest

\* re.finditer(pattern, s): the groups of the non-overlapping matches, left
\* to right (no pattern of this module matches the empty string)
RECURSIVE ReFindGroups(_, _, _)
ReFindGroups(pattern, s, pos) ==
    IF pos > Len(s) THEN <<>>
    ELSE LET m == ReMatch(pattern, 1, s, pos)
         IN  IF m.ok /\ m.end > pos
             THEN <<m.cap>> \o ReFindGroups(pattern, s, m.end)
             ELSE ReFindGroups(pattern, s, pos + 1)

(***************************************************************************)
(* repo_context.py: RepoContextAnalyzer, the import resolvers.             *)
(* self._repo_files_set is None or a non-empty set: [none, set].           *)
(***************************************************************************)
NoFileSet == [none |-> TRUE, set |-> {}]
FileSetOf(paths) == [none |-> FALSE, set |-> paths]

\* a list as the set of its elements
SeqToSet(q) == {q[i] : i \in 1..Len(q)}

WordChars == LowerChars \cup UpperChars \cup DigitChars \cup {"_"}

\* r"^\s*import\s+([a-zA-Z0-9_.,\s]+)"
PyImportRe ==
    <<ReBol, ReStar(Cls(SpaceChars))>> \o ReLit(<<"i", "m", "p", "o", "r", "t">>)
        \o <<RePlus(Cls(SpaceChars)),
             ReGroupPlus(Cls(WordChars \cup {".", ","} \cup SpaceChars))>>

\* r"^\s*from\s+([a-zA-Z0-9_\.]+)\s+import\s+"
PyFromRe ==
    <<ReBol, ReStar(Cls(SpaceChars))>> \o ReLit(<<"f", "r", "o", "m">>)
        \o <<RePlus(Cls(SpaceChars)), ReGroupPlus(Cls(WordChars \cup {"."})),
             RePlus(Cls(SpaceChars))>>
        \o ReLit(<<"i", "m", "p", "o", "r", "t">>) \o <<RePlus(Cls(SpaceChars))>>

\* r"^\s*import\s+.*?\s+from\s+['\"]([^'\"]+)['\"]"
JsImportFromRe ==
    <<ReBol, ReStar(Cls(SpaceChars))>> \o ReLit(<<"i", "m", "p", "o", "r", "t">>)
        \o <<RePlus(Cls(SpaceChars)), ReLazy(NotCls({"\n"})), RePlus(Cls(SpaceChars))>>
        \o ReLit(<<"f", "r", "o", "m">>)
        \o <<RePlus(Cls(SpaceChars)), ReOne(Cls(QuoteChars)),
             ReGroupPlus(NotCls(QuoteChars)), ReOne(Cls(QuoteChars))>>

\* r"^\s*import\s+['\"]([^'\"]+)['\"]"
JsImportRe ==
    <<ReBol, ReStar(Cls(SpaceChars))>> \o ReLit(<<"i", "m", "p", "o", "r", "t">>)
        \o <<RePlus(Cls(SpaceChars)), ReOne(Cls(QuoteChars)),
             ReGroupPlus(NotCls(QuoteChars)), ReOne(Cls(QuoteChars))>>

\* r"require\(\s*['\"]([^'\"]+)['\"]\s*\)"
JsRequireRe ==
    ReLit(<<"r", "e", "q", "u", "i", "r", "e">>)
        \o <<ReOne(Cls({"("})), ReStar(Cls(SpaceChars)), ReOne(Cls(QuoteChars)),
             ReGroupPlus(NotCls(QuoteChars)), ReOne(Cls(QuoteChars)),
             ReStar(Cls(SpaceChars)), ReOne(Cls({")"}))>>

\* Mutant: the candidates are returned without the membership test.
_filter_existing_candidates_NoFilter(candidates, fileset) ==
    IF fileset.none \/ fileset.set = {} THEN {}
    ELSE {Replace(c, <<"/">>, <<"/">>) : c \in SeqToSet(candidates)}

\* _filter_existing_candidates (os.sep is "/")
_filter_existing_candidates(candidates, fileset) ==
    IF fileset.none \/ fileset.set = {} THEN {}
    ELSE LET normalized == {Replace(c, <<"/">>, <<"/">>) : c \in SeqToSet(candidates)}
         IN  {c \in normalized : c \in fileset.set}

\* os.path.dirname applied n times
RECURSIVE DirnameTimes(_, _)
DirnameTimes(p, n) == IF n <= 0 THEN p ELSE DirnameTimes(dirname(p), n - 1)

\* _resolve_python_module
_resolve_python_module(file_path, module_name, fileset) ==
    IF module_name = <<>> THEN {}
    ELSE LET base_dir == dirname(file_path)
             rel_module == LStripChar(module_name, ".")
             leading == Len(module_name) - Len(rel_module)
             walked == DirnameTimes(base_dir, leading - 1)
             target_dir ==
                 IF StartsWith(module_name, <<".">>)
                 THEN IF rel_module # <<>>
                      THEN normpath(pathjoin(walked,
                                             Replace(rel_module, <<".">>, <<"/">>)))
                      ELSE normpath(walked)
                 ELSE Replace(module_name, <<".">>, <<"/">>)
         IN  _filter_existing_candidates(
                 <<target_dir \o <<".", "p", "y">>, pathjoin(target_dir, <<"_", "_", "i", "n", "i", "t", "_", "_", ".", "p", "y">>)>>,
                 fileset)

\* the module names of one "import ..." match: split on ",", cut " as ..."
PyImportNames(group) ==
    LET parts == Split(group, <<",">>)
    IN  [i \in 1..Len(parts) |-> Strip(Split(Strip(parts[i]), <<" ", "a", "s", " ">>)[1])]

\* _resolve_python_imports
_resolve_python_imports(file_path, contents, fileset) ==
    LET imports == ReFindGroups(PyImportRe, contents, 1)
        froms == ReFindGroups(PyFromRe, contents, 1)
    IN  UNION {UNION {_resolve_python_module(file_path, PyImportNames(imports[i])[j],
                                             fileset)
                        : j \in 1..Len(PyImportNames(imports[i]))}
                 : i \in 1..Len(imports)}
          \cup UNION {_resolve_python_module(file_path, Strip(froms[i]), fileset)
                        : i \in 1..Len(froms)}

JsExtensions == <<<<".", "j", "s">>, <<".", "t", "s">>, <<".", "j", "s", "x">>, <<".", "t", "s", "x">>, <<".", "m", "j", "s">>, <<".", "c", "j", "s">>>>

\* _resolve_js_module
_resolve_js_module(file_path, module_name, fileset) ==
    IF ~StartsWith(module_name, <<".">>) THEN {}
    ELSE LET base_dir == dirname(file_path)
             rel_path == Replace(normpath(pathjoin(base_dir, module_name)),
                                 <<"/">>, <<"/">>)
             candidates ==
                 IF splitext(rel_path)[2] # <<>> THEN <<rel_path>>
                 ELSE [i \in 1..Len(JsExtensions) |-> rel_path \o JsExtensions[i]]
                        \o [i \in 1..Len(JsExtensions) |->
                               rel_path \o <<"/", "i", "n", "d", "e", "x">> \o JsExtensions[i]]
         IN  _filter_existing_candidates(candidates, fileset)

\* _resolve_js_imports
_resolve_js_imports(file_path, contents, fileset) ==
    LET groups == ReFindGroups(JsImportFromRe, contents, 1)
                    \o ReFindGroups(JsImportRe, contents, 1)
                    \o ReFindGroups(JsRequireRe, contents, 1)
    IN  UNION {_resolve_js_module(file_path, Strip(groups[i]), fileset)
                 : i \in 1..Len(groups)}

\* _is_import_scannable
_is_import_scannable(file_path) ==
    splitext(file_path)[2] \in {<<".", "p", "y">>} \cup SeqToSet(JsExtensions)

\* _resolve_imports
_resolve_imports(file_path, contents, fileset) ==
    IF splitext(file_path)[2] = <<".", "p", "y">>
    THEN _resolve_python_imports(file_path, contents, fileset)
    ELSE _resolve_js_imports(file_path, contents, fileset)

(***************************************************************************)
(* repo_context.py: RepoContextAnalyzer, the detectors over path lists.    *)
(***************************************************************************)
\* The characters of paths in code point order, for sorted().
AsciiOrder ==
    <<"\t", "\n", "\r", " ", "!", "\"", "#", "$", "%", "&", "'", "(", ")",
      "*", "+", ",", "-", ".", "/", "0", "1", "2", "3", "4", "5", "6", "7",
      "8", "9", ":", ";", "<", "=", ">", "?", "@", "A", "B", "C", "D", "E",
      "F", "G", "H", "I", "J", "K", "L", "M", "N", "O", "P", "Q", "R", "S",
      "T", "U", "V", "W", "X", "Y", "Z", "[", "\\", "]", "^", "_",
      "a", "b", "c", "d", "e", "f", "g", "h", "i", "j", "k", "l", "m", "n",
      "o", "p", "q", "r", "s", "t", "u", "v", "w", "x", "y", "z", "{", "|",
      "}", "~">>

CharRank(c) == CHOOSE i \in 1..Len(AsciiOrder) : AsciiOrder[i] = c

\* a < b on str
RECURSIVE StrLess(_, _)
StrLess(a, b) ==
    IF b = <<>> THEN FALSE
    ELSE IF a = <<>> THEN TRUE
    ELSE IF a[1] = b[1] THEN StrLess(Tail(a), Tail(b))
    ELSE CharRank(a[1]) < CharRank(b[1])

\* sorted(S) of a set of str
RECURSIVE Sorted(_)
Sorted(S) ==
    IF S = {} THEN <<>>
    ELSE LET least == CHOOSE x \in S : \A y \in S \ {x} : StrLess(x, y)
         IN  <<least>> \o Sorted(S \ {least})

\* str.lower()
LowerSeq ==
    <<"a", "b", "c", "d", "e", "f", "g", "h", "i", "j", "k", "l", "m", "n",
      "o", "p", "q", "r", "s", "t", "u", "v", "w", "x", "y", "z">>
UpperSeq ==
    <<"A", "B", "C", "D", "E", "F", "G", "H", "I", "J", "K", "L", "M", "N",
      "O", "P", "Q", "R", "S", "T", "U", "V", "W", "X", "Y", "Z">>
ToLowerChar(c) ==
    IF c \in UpperChars THEN LowerSeq[CHOOSE i \in 1..26 : UpperSeq[i] = c] ELSE c
ToLower(s) == [i \in 1..Len(s) |-> ToLowerChar(s[i])]

\* _file_exists_in_repo
_file_exists_in_repo(file_path, fileset) ==
    IF ~fileset.none THEN file_path \in fileset.set ELSE FALSE

\* a found path, or None
NoPath == [found |-> FALSE, path |-> <<>>]
FoundPath(p) == [found |-> TRUE, path |-> p]

\* the first element of q that satisfies Test, or None
FirstThat(q, Test(_)) ==
    LET hits == {i \in 1..Len(q) : Test(q[i])}
    IN  IF hits = {} THEN NoPath ELSE FoundPath(q[SetMin(hits)])

\* _find_test_file: the candidates by name, in the order they are tried
TestNamePatterns(source_file) ==
    <<Replace(source_file, <<".", "p", "y">>, <<"_", "t", "e", "s", "t", ".", "p", "y">>),
      Replace(source_file, <<".", "p", "y">>, <<".", "t", "e", "s", "t", ".", "p", "y">>),
      Replace(source_file, <<".", "j", "s">>, <<".", "t", "e", "s", "t", ".", "j", "s">>),
      Replace(source_file, <<".", "t", "s">>, <<".", "t", "e", "s", "t", ".", "t", "s">>),
      Replace(source_file, <<".", "t", "s">>, <<".", "s", "p", "e", "c", ".", "t", "s">>)>>

\* _find_test_file: the candidates in a test directory, one for every
\* component that is "src", "lib" or "main"
TestDirCandidates(source_file) ==
    LET parts == Split(source_file, <<"/">>)
        at == SelectSeq([i \in 1..Len(parts) |-> i],
                        LAMBDA i : parts[i] \in {<<"s", "r", "c">>, <<"l", "i", "b">>, <<"m", "a", "i", "n">>})
    IN  [n \in 1..Len(at) |->
            Join(SubSeq(parts, 1, at[n] - 1) \o <<<<"t", "e", "s", "t">>, <<"_", "_", "t", "e", "s", "t", "s", "_", "_">>, <<"t", "e", "s", "t", "s">>>>
                     \o SubSeq(parts, at[n], Len(parts)),
                 <<"/">>)]

\* _find_test_file
_find_test_file(source_file, fileset) ==
    LET byName == FirstThat(TestNamePatterns(source_file),
                            LAMBDA t : t # source_file
                                         /\ _file_exists_in_repo(t, fileset))
    IN  IF byName.found THEN byName
        ELSE FirstThat(TestDirCandidates(source_file),
                       LAMBDA t : _file_exists_in_repo(t, fileset))

ConfigPatterns ==
    <<<<"s", "e", "t", "u", "p", ".", "p", "y">>, <<"p", "y", "p", "r", "o", "j", "e", "c", "t", ".", "t", "o", "m", "l">>, <<"r", "e", "q", "u", "i", "r", "e", "m", "e", "n", "t", "s", ".", "t", "x", "t">>,
      <<"p", "a", "c", "k", "a", "g", "e", ".", "j", "s", "o", "n">>, <<"t", "s", "c", "o", "n", "f", "i", "g", ".", "j", "s", "o", "n">>, <<"w", "e", "b", "p", "a", "c", "k", ".", "c", "o", "n", "f", "i", "g", ".", "j", "s">>,
      <<".", "e", "n", "v">>, <<"d", "o", "c", "k", "e", "r", "-", "c", "o", "m", "p", "o", "s", "e", ".", "y", "m", "l">>, <<"D", "o", "c", "k", "e", "r", "f", "i", "l", "e">>,
      <<"M", "a", "k", "e", "f", "i", "l", "e">>, <<"C", "M", "a", "k", "e", "L", "i", "s", "t", "s", ".", "t", "x", "t">>>>

\* _find_affected_config_files
_find_affected_config_files(modified_files, fileset) ==
    SelectSeq(ConfigPatterns, LAMBDA c : _file_exists_in_repo(c, fileset))

DocExtensions == <<<<".", "m", "d">>, <<".", "r", "s", "t">>, <<".", "t", "x", "t">>>>
RootDocs == <<<<"R", "E", "A", "D", "M", "E", ".", "m", "d">>, <<"C", "H", "A", "N", "G", "E", "L", "O", "G", ".", "m", "d">>, <<"d", "o", "c", "s", "/", "i", "n", "d", "e", "x", ".", "m", "d">>>>

\* _find_related_docs: the candidates of the modified files, in order
RECURSIVE DocCandidates(_)
DocCandidates(modified_files) ==
    IF modified_files = <<>> THEN <<>>
    ELSE [i \in 1..Len(DocExtensions) |->
             splitext(modified_files[1])[1] \o DocExtensions[i]]
           \o DocCandidates(Tail(modified_files))

\* _find_related_docs
_find_related_docs(modified_files, fileset) ==
    SelectSeq(DocCandidates(modified_files) \o RootDocs,
              LAMBDA d : _file_exists_in_repo(d, fileset))

\* one entry of layer_indicators
LayerIndicator(layer, patterns) == [layer |-> layer, patterns |-> patterns]

\* layer_indicators, in the order of the dict
LayerIndicators ==
    <<LayerIndicator(<<"m", "o", "d", "e", "l", "s">>, <<<<"m", "o", "d", "e", "l", "s", "/">>, <<"m", "o", "d", "e", "l", ".", "p", "y">>, <<"e", "n", "t", "i", "t", "i", "e", "s", "/">>>>),
      LayerIndicator(<<"v", "i", "e", "w", "s">>, <<<<"v", "i", "e", "w", "s", "/">>, <<"v", "i", "e", "w", ".", "p", "y">>, <<"u", "i", "/">>, <<"t", "e", "m", "p", "l", "a", "t", "e", "s", "/">>>>),
      LayerIndicator(<<"c", "o", "n", "t", "r", "o", "l", "l", "e", "r", "s">>, <<<<"c", "o", "n", "t", "r", "o", "l", "l", "e", "r", "s", "/">>, <<"c", "o", "n", "t", "r", "o", "l", "l", "e", "r", ".", "p", "y">>, <<"h", "a", "n", "d", "l", "e", "r", "s", "/">>, <<"h", "a", "n", "d", "l", "e", "r", "s", ".", "p", "y">>>>),
      LayerIndicator(<<"s", "e", "r", "v", "i", "c", "e", "s">>, <<<<"s", "e", "r", "v", "i", "c", "e", "s", "/">>, <<"s", "e", "r", "v", "i", "c", "e", ".", "p", "y">>, <<"b", "u", "s", "i", "n", "e", "s", "s", "/">>>>),
      LayerIndicator(<<"r", "e", "p", "o", "s", "i", "t", "o", "r", "i", "e", "s">>, <<<<"r", "e", "p", "o", "s", "i", "t", "o", "r", "i", "e", "s", "/">>, <<"r", "e", "p", "o", "s", "i", "t", "o", "r", "y", ".", "p", "y">>, <<"r", "e", "p", "o", "s", "/">>, <<"d", "a", "t", "a", "/">>>>),
      LayerIndicator(<<"m", "i", "d", "d", "l", "e", "w", "a", "r", "e">>, <<<<"m", "i", "d", "d", "l", "e", "w", "a", "r", "e", "/">>, <<"m", "i", "d", "d", "l", "e", "w", "a", "r", "e", "s", "/">>>>),
      LayerIndicator(<<"u", "t", "i", "l", "s">>, <<<<"u", "t", "i", "l", "s", "/">>, <<"u", "t", "i", "l", ".", "p", "y">>, <<"h", "e", "l", "p", "e", "r", "s", "/">>>>)>>

\* The orders in which list(set) may enumerate the layers: the order of a
\* set of str is not specified, it changes with the hash seed.
LayerOrders ==
    {[i \in 1..Len(LayerIndicators) |-> LayerIndicators[i].layer],
     [i \in 1..Len(LayerIndicators) |->
         LayerIndicators[Len(LayerIndicators) + 1 - i].layer]}

\* _detect_layers: the set of the layers some path indicates
DetectedLayers(repo_files) ==
    {LayerIndicators[n].layer : n \in
        {n \in 1..Len(LayerIndicators) :
            \E i \in 1..Len(repo_files), p \in 1..Len(LayerIndicators[n].patterns) :
                Contains(repo_files[i], LayerIndicators[n].patterns[p])}}

\* _detect_layers: list(layers), enumerated in the order `order`
_detect_layers(repo_files, order) ==
    SelectSeq(order, LAMBDA l : l \in DetectedLayers(repo_files))

\* _detect_module_based: os.listdir of the provider's directory has an
\* __init__.py; a listing that raises counts as none
_detect_module_based(root_listing) ==
    IF root_listing.raises THEN FALSE
    ELSE Cardinality({f \in root_listing.names : f = <<"_", "_", "i", "n", "i", "t", "_", "_", ".", "p", "y">>}) > 0

\* _detect_architecture_type
_detect_architecture_type(repo_files, root_listing) ==
    IF (\E i \in 1..Len(repo_files) : Contains(repo_files[i], <<"s", "e", "r", "v", "i", "c", "e">>))
         /\ (\E i \in 1..Len(repo_files) : Contains(repo_files[i], <<"a", "p", "i">>))
    THEN <<"m", "i", "c", "r", "o", "s", "e", "r", "v", "i", "c", "e", "s">>
    ELSE IF \E layer \in {<<"m", "o", "d", "e", "l", "s">>, <<"v", "i", "e", "w", "s">>, <<"c", "o", "n", "t", "r", "o", "l", "l", "e", "r", "s">>} :
                layer \in SeqToSet(repo_files)
    THEN <<"m", "v", "c">>
    ELSE IF _detect_module_based(root_listing) THEN <<"m", "o", "d", "u", "l", "a", "r">>
    ELSE <<"m", "o", "n", "o", "l", "i", "t", "h", "i", "c">>

\* the distinct elements of q in the order of their first appearance
RECURSIVE Distinct(_)
Distinct(q) ==
    IF q = <<>> THEN <<>>
    ELSE LET front == Distinct(SubSeq(q, 1, Len(q) - 1))
         IN  IF q[Len(q)] \in SeqToSet(front) THEN front
             ELSE Append(front, q[Len(q)])

\* _analyze_module_organization: dict(modules) as its items, in insertion
\* order
_analyze_module_organization(repo_files) ==
    LET nested == SelectSeq(repo_files, LAMBDA f : Len(Split(f, <<"/">>)) > 1)
        module(f) == Split(f, <<"/">>)[1]
        names == Distinct([i \in 1..Len(nested) |-> module(nested[i])])
    IN  [n \in 1..Len(names) |->
            [module |-> names[n],
             files |-> SelectSeq(nested, LAMBDA f : module(f) = names[n])]]

\* A dict that a sub-analysis returns, or {} when it caught an exception.
EmptyPatterns ==
    [empty |-> TRUE, layers |-> <<>>, architecture_type |-> <<>>,
     module_organization |-> <<>>]

\* _identify_architectural_patterns: nothing in it raises on lists of str
_identify_architectural_patterns(repo_files, order, root_listing) ==
    [empty |-> FALSE,
     layers |-> _detect_layers(repo_files, order),
     architecture_type |-> _detect_architecture_type(repo_files, root_listing),
     module_organization |-> _analyze_module_organization(repo_files)]

\* language_map, in the order of the dict
LanguageMap ==
    <<[ext |-> <<".", "p", "y">>, language |-> <<"p", "y", "t", "h", "o", "n">>],
      [ext |-> <<".", "j", "s">>, language |-> <<"j", "a", "v", "a", "s", "c", "r", "i", "p", "t">>],
      [ext |-> <<".", "t", "s">>, language |-> <<"t", "y", "p", "e", "s", "c", "r", "i", "p", "t">>],
      [ext |-> <<".", "j", "a", "v", "a">>, language |-> <<"j", "a", "v", "a">>],
      [ext |-> <<".", "g", "o">>, language |-> <<"g", "o">>],
      [ext |-> <<".", "r", "s">>, language |-> <<"r", "u", "s", "t">>],
      [ext |-> <<".", "c", "p", "p">>, language |-> <<"c", "p", "p">>],
      [ext |-> <<".", "c", "s">>, language |-> <<"c", "s", "h", "a", "r", "p">>]>>

\* language_map[ext], for an ext in language_map
LanguageOf(ext) ==
    LanguageMap[CHOOSE n \in 1..Len(LanguageMap) : LanguageMap[n].ext = ext].language

\* _detect_primary_language: max() over the keys of ext_count returns the
\* first key, in insertion order, that has the greatest count
_detect_primary_language(repo_files) ==
    LET known == SelectSeq(repo_files,
                    LAMBDA f : \E n \in 1..Len(LanguageMap) :
                                   LanguageMap[n].ext = splitext(f)[2])
        langs == [i \in 1..Len(known) |-> LanguageOf(splitext(known[i])[2])]
        keys == Distinct(langs)
        ext_count(l) == Cardinality({i \in 1..Len(langs) : langs[i] = l})
        best == SetMax({ext_count(keys[n]) : n \in 1..Len(keys)})
    IN  IF keys = <<>> THEN <<"u", "n", "k", "n", "o", "w", "n">>
        ELSE keys[SetMin({n \in 1..Len(keys) : ext_count(keys[n]) = best})]

\* sum(1 for f in repo_files if Test(f))
CountOf(repo_files, Test(_)) ==
    Cardinality({i \in 1..Len(repo_files) : Test(repo_files[i])})

EmptyNaming == [file_naming |-> <<>>, directory_naming |-> <<>>]

\* _extract_naming_conventions: os.path.basename(f)[0] raises IndexError
\* for a path whose basename is empty
_extract_naming_conventions(repo_files) ==
    LET snake_case_files == CountOf(repo_files, LAMBDA f : Contains(basename(f), <<"_">>))
        kebab_case_files == CountOf(repo_files, LAMBDA f : Contains(basename(f), <<"-">>))
        camel_case_files ==
            CountOf(repo_files,
                    LAMBDA f : basename(f)[1] \in LowerChars
                                 /\ \E i \in 1..Len(basename(f)) :
                                        basename(f)[i] \in UpperChars)
        file_naming ==
            IF snake_case_files > kebab_case_files
                 /\ snake_case_files > camel_case_files THEN <<"s", "n", "a", "k", "e", "_", "c", "a", "s", "e">>
            ELSE IF kebab_case_files > snake_case_files THEN <<"k", "e", "b", "a", "b", "_", "c", "a", "s", "e">>
            ELSE IF camel_case_files > 0 THEN <<"c", "a", "m", "e", "l", "C", "a", "s", "e">>
            ELSE <<"u", "n", "k", "n", "o", "w", "n">>
    IN  IF \E i \in 1..Len(repo_files) : basename(repo_files[i]) = <<>>
        THEN [raised |-> TRUE, value |-> EmptyNaming]
        ELSE [raised |-> FALSE,
              value |-> [file_naming |-> file_naming,
                         directory_naming |-> <<"u", "n", "k", "n", "o", "w", "n">>]]

\* _detect_import_style
_detect_import_style(repo_files) == <<"m", "i", "x", "e", "d">>

EmptyConventions ==
    [empty |-> TRUE, primary_language |-> <<>>,
     naming_conventions |-> EmptyNaming, import_style |-> <<>>]

\* _get_language_conventions: it has no except clause, the IndexError of
\* _extract_naming_conventions leaves it
_get_language_conventions(repo_files) ==
    LET naming == _extract_naming_conventions(repo_files)
    IN  IF naming.raised THEN [raised |-> TRUE, value |-> EmptyConventions]
        ELSE [raised |-> FALSE,
              value |-> [empty |-> FALSE,
                         primary_language |-> _detect_primary_language(repo_files),
                         naming_conventions |-> naming.value,
                         import_style |-> _detect_import_style(repo_files)]]

EmptyImpact ==
    [empty |-> TRUE, modified_dependencies |-> <<>>, affected_modules |-> <<>>,
     breaking_changes_risk |-> <<>>]

DependencyFiles ==
    {<<"r", "e", "q", "u", "i", "r", "e", "m", "e", "n", "t", "s", ".", "t", "x", "t">>, <<"p", "a", "c", "k", "a", "g", "e", ".", "j", "s", "o", "n">>, <<"p", "y", "p", "r", "o", "j", "e", "c", "t", ".", "t", "o", "m", "l">>, <<"G", "e", "m", "f", "i", "l", "e">>, <<"g", "o", ".", "m", "o", "d">>}

\* _analyze_dependencies_impact
_analyze_dependencies_impact(modified_files) ==
    LET modified_dependencies ==
            SelectSeq(modified_files, LAMBDA f : basename(f) \in DependencyFiles)
    IN  [empty |-> FALSE,
         modified_dependencies |-> modified_dependencies,
         affected_modules |-> <<>>,
         breaking_changes_risk |->
             IF modified_dependencies # <<>> THEN <<"h", "i", "g", "h">> ELSE <<"l", "o", "w">>]

\* _detect_testing_framework
_detect_testing_framework(repo_files) ==
    IF \E i \in 1..Len(repo_files) : Contains(ToLower(repo_files[i]), <<"t", "e", "s", "t">>)
    THEN <<"d", "e", "t", "e", "c", "t", "e", "d">> ELSE <<"u", "n", "k", "n", "o", "w", "n">>

EmptyCodePatterns ==
    [empty |-> TRUE, uses_decorators |-> FALSE, uses_interfaces |-> FALSE,
     uses_inheritance |-> FALSE, testing_framework |-> <<>>,
     logging_approach |-> <<>>]

\* _extract_code_patterns
_extract_code_patterns(repo_files) ==
    [empty |-> FALSE,
     uses_decorators |-> FALSE, uses_interfaces |-> FALSE,
     uses_inheritance |-> FALSE,
     testing_framework |-> _detect_testing_framework(repo_files),
     logging_approach |-> <<"s", "t", "a", "n", "d", "a", "r", "d">>]

\* _find_similar_implementations
_find_similar_implementations(repo_files) == <<>>

(***************************************************************************)
(* The repository on disk: a checkout at LocalRoot, and the same tree in   *)
(* the temporary directory after a clone.                                  *)
(***************************************************************************)
LocalRoot == <<"/", "r">>
TmpDir == <<"/", "t", "m", "p", "/", "t">>

RepoFile(path, contents) == [path |-> path, contents |-> contents]

\* The files of the tree in the order os.walk visits them, with the text of
\* each.
RepoTree ==
    <<RepoFile(<<"R", "E", "A", "D", "M", "E", ".", "m", "d">>, <<"#", " ", "d", "e", "m", "o">>),
      RepoFile(<<"s", "e", "t", "u", "p", ".", "p", "y">>, <<"i", "m", "p", "o", "r", "t", " ", "s", "e", "t", "u", "p", "t", "o", "o", "l", "s", "\n">>),
      RepoFile(<<".", "g", "i", "t", "/", "c", "o", "n", "f", "i", "g">>, <<"[", "c", "o", "r", "e", "]">>),
      RepoFile(<<".", "h", "g", "/", "h", "g", "r", "c">>, <<"[", "u", "i", "]">>),
      RepoFile(<<"p", "k", "g", "/", "_", "_", "i", "n", "i", "t", "_", "_", ".", "p", "y">>, <<>>),
      RepoFile(<<"p", "k", "g", "/", "a", ".", "p", "y">>, <<"i", "m", "p", "o", "r", "t", " ", "p", "k", "g", ".", "b", ",", " ", "o", "s", "\n", "f", "r", "o", "m", " ", ".", "b", " ", "i", "m", "p", "o", "r", "t", " ", "f", "\n">>),
      RepoFile(<<"p", "k", "g", "/", "b", ".", "p", "y">>, <<"f", "r", "o", "m", " ", ".", " ", "i", "m", "p", "o", "r", "t", " ", "x", "\n">>),
      RepoFile(<<"p", "k", "g", "/", ".", "s", "v", "n", "/", "e", "n", "t", "r", "i", "e", "s">>, <<"1", "2">>),
      RepoFile(<<"w", "e", "b", "/", "x", ".", "j", "s">>, <<"i", "m", "p", "o", "r", "t", " ", "y", " ", "f", "r", "o", "m", " ", "'", ".", "/", "y", "'", "\n", "c", "o", "n", "s", "t", " ", "z", " ", "=", " ", "r", "e", "q", "u", "i", "r", "e", "(", "'", ".", "/", "z", "'", ")", "\n">>),
      RepoFile(<<"w", "e", "b", "/", "y", ".", "t", "s">>, <<"e", "x", "p", "o", "r", "t", " ", "{", "}">>)>>

\* absolute path -> text, for the files that open() can read
DiskContents ==
    [p \in {pathjoin(root, RepoTree[i].path) :
                root \in {LocalRoot, TmpDir}, i \in 1..Len(RepoTree)} |->
        LET i == CHOOSE i \in 1..Len(RepoTree) :
                    \E root \in {LocalRoot, TmpDir} :
                        p = pathjoin(root, RepoTree[i].path)
        IN  RepoTree[i].contents]

\* None, or a value
None == [none |-> TRUE, v |-> <<>>]
Some(v) == [none |-> FALSE, v |-> v]
\* bool(x) of an Optional str or list
Truthy(x) == ~x.none /\ x.v # <<>>

VcsDirs == {<<".", "g", "i", "t">>, <<".", "h", "g">>, <<".", "s", "v", "n">>}

\* os.path.isdir
IsDir(path) == path = LocalRoot

\* os.walk(repo_root) with the pruned directories not entered: the relative
\* paths of the files visited, in order.  The temporary directory holds
\* the tree once the clone has succeeded.
WalkOf(repo_root) ==
    IF repo_root \in {LocalRoot, TmpDir}
    THEN SelectSeq([i \in 1..Len(RepoTree) |-> RepoTree[i].path],
                   LAMBDA p : LET parts == Split(p, <<"/">>)
                              IN  \A n \in 1..(Len(parts) - 1) :
                                      parts[n] \notin VcsDirs)
    ELSE <<>>

\* _set_repo_files that keeps a file set when it is given no list
_set_repo_files_KeepsSet(repo_files) ==
    IF repo_files # <<>> THEN FileSetOf(SeqToSet(repo_files))
    ELSE FileSetOf(SeqToSet(WalkOf(LocalRoot)))

\* _set_repo_files: the value of self._repo_files_set
_set_repo_files(repo_files) ==
    IF repo_files # <<>> THEN FileSetOf(SeqToSet(repo_files)) ELSE NoFileSet

(***************************************************************************)
(* The calls that are made: the arguments are drawn from these sets, and   *)
(* the outcome of each call is computed once.                              *)
(***************************************************************************)
\* The function f, with its values computed.
Tabulated(f) == f @@ <<>>

\* the sequences over S of length n at most
SeqsUpTo(S, n) == UNION {[1..k -> S] : k \in 0..n}

ModifiedPool ==
    {<<"p", "k", "g", "/", "a", ".", "p", "y">>,
     <<"w", "e", "b", "/", "x", ".", "j", "s">>,
     <<"s", "r", "c", "/">>,
     <<"p", ".", "p", "y", "/", "a", ".", "p", "y">>}
ModifiedChoices == SeqsUpTo(ModifiedPool, MaxModified)

\* the tree as _list_repo_files returns it
FullListing == WalkOf(LocalRoot)
\* a list with a directory path in it
DirListing == <<<<"p", "k", "g", "/", "a", ".", "p", "y">>, <<"l", "i", "b", "/">>>>
\* the tree as _list_repo_files returns it with a cap of 3
CappedListing == SubSeq(FullListing, 1, 3)
\* a list with a directory whose name holds ".py", a test file, a
\* camelCase name, and pkg/b.py without pkg/a.py, which imports it
OddListing ==
    <<<<"p", ".", "p", "y", "/", "a", ".", "p", "y">>,
      <<"p", ".", "p", "y", "/", "a", "_", "t", "e", "s", "t", ".", "p", "y">>,
      <<"w", "e", "b", "/", "a", "B", ".", "j", "s">>,
      <<"p", "k", "g", "/", "b", ".", "p", "y">>>>
RepoFileChoices ==
    {None, Some(FullListing), Some(CappedListing), Some(DirListing),
     Some(OddListing)}

RootChoices == {None, Some(LocalRoot), Some(TmpDir)}

RootListings ==
    {[raises |-> TRUE, names |-> {}],
     [raises |-> FALSE, names |-> {<<"R", "E", "A", "D", "M", "E", ".", "m", "d">>, <<"p", "k", "g">>}],
     [raises |-> FALSE, names |-> {<<"_", "_", "i", "n", "i", "t", "_", "_", ".", "p", "y">>, <<"a", ".", "p", "y">>}]}

EnabledConfigs == {"True", "False", "Absent", "Zero"}


\* The file sets an analyzer can hold.
FileSets == {NoFileSet} \cup {_set_repo_files(r.v) : r \in RepoFileChoices}

\* _read_repo_file: a file that cannot be opened reads as ""
_read_repo_file(rel_path, repo_root) ==
    IF ~Truthy(repo_root) THEN <<>>
    ELSE LET abs_path == pathjoin(repo_root.v, rel_path)
         IN  IF abs_path \in DOMAIN DiskContents THEN DiskContents[abs_path]
             ELSE <<>>

EmptyRelated ==
    [empty |-> TRUE, test_files |-> <<>>, config_files |-> <<>>,
     documentation_files |-> <<>>, imported_by |-> <<>>, imports_from |-> <<>>]

\* _populate_import_relationships, the loop over the repository files:
\* imports_from_map, with an entry for every scannable file that reads as
\* non-empty text
ScanImports(fileset, repo_root) ==
    LET scanned == {f \in fileset.set :
                       /\ _is_import_scannable(f)
                       /\ _read_repo_file(f, repo_root) # <<>>}
    IN  [f \in scanned |->
            _resolve_imports(f, _read_repo_file(f, repo_root), fileset)]

ImportsOf ==
    Tabulated([fileset \in FileSets \ {NoFileSet} |->
        Tabulated([repo_root \in RootChoices \ {None} |->
            Tabulated(ScanImports(fileset, repo_root))])])

\* imports_from_map of this call
ImportsFromMap(fileset, repo_root) == ImportsOf[fileset][repo_root]

\* _populate_import_relationships, the loop over the modified files and the
\* two sorted lists
ImportLists(modified_files, related_files, imports_from_map) ==
    [related_files EXCEPT
        !.imports_from =
            Sorted(UNION {imports_from_map[f] :
                             f \in SeqToSet(modified_files) \cap DOMAIN imports_from_map}),
        !.imported_by =
            Sorted({f \in DOMAIN imports_from_map :
                       imports_from_map[f] \cap SeqToSet(modified_files) # {}})]

\* _populate_import_relationships: related_files with its two import lists
_populate_import_relationships(modified_files, related_files, fileset, repo_root) ==
    IF ~Truthy(repo_root) \/ fileset.none \/ fileset.set = {} THEN related_files
    ELSE ImportLists(modified_files, related_files,
                     ImportsFromMap(fileset, repo_root))

\* _get_related_files: the test files of the modified files, in order
RECURSIVE TestFilesOf(_, _)
TestFilesOf(modified_files, fileset) ==
    IF modified_files = <<>> THEN <<>>
    ELSE LET test_file == _find_test_file(modified_files[1], fileset)
         IN  (IF test_file.found /\ test_file.path # <<>>
              THEN <<test_file.path>> ELSE <<>>)
                 \o TestFilesOf(Tail(modified_files), fileset)

\* _get_related_files: nothing in it raises on lists of str
_get_related_files(modified_files, fileset, repo_root) ==
    _populate_import_relationships(
        modified_files,
        [empty |-> FALSE,
         test_files |-> TestFilesOf(modified_files, fileset),
         config_files |-> _find_affected_config_files(modified_files, fileset),
         documentation_files |-> _find_related_docs(modified_files, fileset),
         imported_by |-> <<>>,
         imports_from |-> <<>>],
        fileset, repo_root)

\* {}
EmptyContext ==
    [empty |-> TRUE,
     related_files |-> EmptyRelated,
     architectural_patterns |-> EmptyPatterns,
     language_specific_conventions |-> EmptyConventions,
     dependencies_impact |-> EmptyImpact,
     code_patterns |-> EmptyCodePatterns,
     similar_implementations |-> <<>>]

\* The gate of get_repository_context, were the default of the missing key
\* not False.
AnalysisDisabled_MissingKeyEnables(enabled) == enabled = "False"

\* get("repo_context_enabled", False) is False, in get_repository_context:
\* true for the value False and for a missing key, false for every other
\* value, also for 0
AnalysisDisabled(enabled) == enabled \in {"False", "Absent"}

\* The fields of the analyzer instance.
AnalyzerFields(repo_files_set, repo_root) ==
    [repo_files_set |-> repo_files_set, repo_root |-> repo_root]

\* The statements of the analysis that change a list in place, each named
\* by the list it fills: related_files["test_files"].append,
\* affected_configs.append, docs.append and
\* impact["modified_dependencies"].append.
AppendSites ==
    <<"test_files", "config_files", "documentation_files",
      "modified_dependencies">>

\* The target of the appends, were docs of _find_related_docs the list of
\* the caller and not a new one.
AppendTarget_DocsIntoArgument(site) ==
    IF site = "documentation_files" THEN "modified_files" ELSE "new"

\* The list object each of these statements appends to: a list its
\* function made itself, never modified_files or repo_files
AppendTarget(site) == "new"

\* what a call that made related_files and impact appended at a site
AppendedAt(site, related_files, impact) ==
    CASE site = "test_files" -> related_files.test_files
      [] site = "config_files" -> related_files.config_files
      [] site = "documentation_files" -> related_files.documentation_files
      [] site = "modified_dependencies" -> impact.modified_dependencies

\* what such a call appended to the list object target
RECURSIVE AppendedTo(_, _, _, _)
AppendedTo(target, sites, related_files, impact) ==
    IF sites = <<>> THEN <<>>
    ELSE (IF AppendTarget(sites[1]) = target
          THEN AppendedAt(sites[1], related_files, impact) ELSE <<>>)
            \o AppendedTo(target, Tail(sites), related_files, impact)

\* what a call appended to the two lists of its caller
Appends(related_files, impact) ==
    [modified_files |->
         AppendedTo("modified_files", AppendSites, related_files, impact),
     repo_files |->
         AppendedTo("repo_files", AppendSites, related_files, impact)]
NoAppends == [modified_files |-> <<>>, repo_files |-> <<>>]

\* What the except clause of get_repository_context does with an exception
\* raised after appended was appended.
AnalysisHandler(self, failed, appended) ==
    [context |-> EmptyContext, self |-> self, failed |-> failed, ran |-> TRUE,
     appended |-> appended]

\* get_repository_context returns the context it made
Analyzed(context, self) ==
    [context |-> context, self |-> self, failed |-> {}, ran |-> TRUE,
     appended |-> Appends(context.related_files, context.dependencies_impact)]

\* repo_files or modified_files, and repo_files or []
AnalysisFiles(repo_files, modified_files) ==
    IF Truthy(repo_files) THEN repo_files.v ELSE modified_files
SuppliedFiles(repo_files) == IF Truthy(repo_files) THEN repo_files.v ELSE <<>>

\* get_repository_context from the context dict on: related_files is made
\* first, and of the sub-analyses after it _get_language_conventions
\* (conventions) is the one that can raise
Sections(related_files, modified_files, analysis_files, fileset, repo_root, order, root_listing, conventions) ==
    IF conventions.raised
    THEN AnalysisHandler(AnalyzerFields(fileset, repo_root),
                         {"language_specific_conventions"},
                         Appends(related_files, EmptyImpact))
    ELSE Analyzed([empty |-> FALSE,
                   related_files |-> related_files,
                   architectural_patterns |->
                       _identify_architectural_patterns(analysis_files, order,
                                                        root_listing),
                   language_specific_conventions |-> conventions.value,
                   dependencies_impact |->
                       _analyze_dependencies_impact(modified_files),
                   code_patterns |-> _extract_code_patterns(analysis_files),
                   similar_implementations |->
                       _find_similar_implementations(analysis_files)],
                  AnalyzerFields(fileset, repo_root))

\* get_repository_context from _set_repo_files on: the six sub-analyses
SubAnalyses(modified_files, analysis_files, fileset, repo_root, order, root_listing, conventions) ==
    Sections(_get_related_files(modified_files, fileset, repo_root),
             modified_files, analysis_files, fileset, repo_root, order,
             root_listing, conventions)

\* get_repository_context(modified_files, repo_files, repo_root): the
\* context, whether the analysis was entered (ran) and then the fields it
\* assigned to the analyzer (self), and the sub-analyses that raised.  order
\* and root_listing are what the environment shows to this call.
get_repository_context(enabled, modified_files, repo_files, repo_root, order, root_listing) ==
    IF AnalysisDisabled(enabled)
    THEN [context |-> EmptyContext, self |-> AnalyzerFields(NoFileSet, None),
          failed |-> {}, ran |-> FALSE, appended |-> NoAppends]
    ELSE SubAnalyses(modified_files, AnalysisFiles(repo_files, modified_files),
                     _set_repo_files(SuppliedFiles(repo_files)), repo_root,
                     order, root_listing,
                     _get_language_conventions(
                         AnalysisFiles(repo_files, modified_files)))

\* The outcome of every call of get_repository_context that is made.
AnalysisOf ==
    Tabulated([enabled \in EnabledConfigs |->
     Tabulated([order \in LayerOrders |->
      Tabulated([root_listing \in RootListings |->
       Tabulated([repo_root \in RootChoices |->
        Tabulated([repo_files \in RepoFileChoices |->
         Tabulated([modified_files \in ModifiedChoices |->
            get_repository_context(enabled, modified_files, repo_files,
                                   repo_root, order, root_listing)])])])])])])

\* get_repository_context of this call
Analysis(enabled, modified_files, repo_files, repo_root, order, root_listing) ==
    AnalysisOf[enabled][order][root_listing][repo_root][repo_files][modified_files]

\* the lines of one section of _format_context
ItemLine(label, items) ==
    IF items # <<>> THEN <<label \o Join(items, <<",", " ">>)>> ELSE <<>>
TextLine(label, text) ==
    IF text # <<>> THEN <<label \o text>> ELSE <<>>

\* _format_context
_format_context(context) ==
    LET related == context.related_files
        patterns == context.architectural_patterns
        conventions == context.language_specific_conventions
        impact == context.dependencies_impact
        code == context.code_patterns
        parts ==
            <<<<"#", " ", "R", "e", "p", "o", "s", "i", "t", "o", "r", "y", " ", "C", "o", "n", "t", "e", "x", "t", "\n">>>>
            \o (IF ~context.empty /\ ~related.empty
                THEN <<<<"#", "#", " ", "R", "e", "l", "a", "t", "e", "d", " ", "F", "i", "l", "e", "s">>>>
                       \o ItemLine(<<"-", " ", "T", "e", "s", "t", " ", "f", "i", "l", "e", "s", ":", " ">>, related.test_files)
                       \o ItemLine(<<"-", " ", "C", "o", "n", "f", "i", "g", " ", "f", "i", "l", "e", "s", ":", " ">>, related.config_files)
                       \o ItemLine(<<"-", " ", "D", "o", "c", "u", "m", "e", "n", "t", "a", "t", "i", "o", "n", ":", " ">>, related.documentation_files)
                       \o <<<<>>>>
                ELSE <<>>)
            \o (IF ~context.empty /\ ~patterns.empty
                THEN <<<<"#", "#", " ", "A", "r", "c", "h", "i", "t", "e", "c", "t", "u", "r", "e">>>>
                       \o TextLine(<<"-", " ", "T", "y", "p", "e", ":", " ">>, patterns.architecture_type)
                       \o ItemLine(<<"-", " ", "L", "a", "y", "e", "r", "s", ":", " ">>, patterns.layers)
                       \o <<<<>>>>
                ELSE <<>>)
            \o (IF ~context.empty /\ ~conventions.empty
                THEN <<<<"#", "#", " ", "C", "o", "d", "e", " ", "C", "o", "n", "v", "e", "n", "t", "i", "o", "n", "s">>>>
                       \o TextLine(<<"-", " ", "L", "a", "n", "g", "u", "a", "g", "e", ":", " ">>, conventions.primary_language)
                       \o TextLine(<<"-", " ", "F", "i", "l", "e", " ", "n", "a", "m", "i", "n", "g", ":", " ">>,
                                   conventions.naming_conventions.file_naming)
                       \o <<<<>>>>
                ELSE <<>>)
            \o (IF ~context.empty /\ ~impact.empty
                     /\ impact.modified_dependencies # <<>>
                THEN <<<<"#", "#", " ", "D", "e", "p", "e", "n", "d", "e", "n", "c", "i", "e", "s", " ", "M", "o", "d", "i", "f", "i", "e", "d">>>>
                       \o <<<<"-", " ">> \o Join(impact.modified_dependencies, <<",", " ">>)>>
                       \o <<<<"-", " ", "B", "r", "e", "a", "k", "i", "n", "g", " ", "c", "h", "a", "n", "g", "e", "s", " ", "r", "i", "s", "k", ":", " ">> \o impact.breaking_changes_risk>>
                       \o <<<<>>>>
                ELSE <<>>)
            \o (IF ~context.empty /\ ~code.empty
                THEN <<<<"#", "#", " ", "C", "o", "d", "e", " ", "P", "a", "t", "t", "e", "r", "n", "s">>>>
                       \o TextLine(<<"-", " ", "T", "e", "s", "t", "i", "n", "g", ":", " ">>, code.testing_framework)
                       \o <<<<>>>>
                ELSE <<>>)
    IN  Join(parts, <<"\n">>)

(***************************************************************************)
(* repo_context.py: the file listing, the repository root and              *)
(* RepositoryContextProvider.                                              *)
(***************************************************************************)
\* _list_repo_files without the test of the cap
_list_repo_files_Uncapped(repo_root, max_files) ==
    IF ~max_files.ok THEN [raised |-> TRUE, files |-> <<>>]
    ELSE [raised |-> FALSE, files |-> WalkOf(repo_root)]

\* _list_repo_files: int() of the configured cap raises for a value that
\* is not a number
_list_repo_files(repo_root, max_files) ==
    LET walk == WalkOf(repo_root)
    IN  IF ~max_files.ok THEN [raised |-> TRUE, files |-> <<>>]
        ELSE IF max_files.n > 0 /\ Len(walk) >= max_files.n
        THEN [raised |-> FALSE, files |-> SubSeq(walk, 1, max_files.n)]
        ELSE [raised |-> FALSE, files |-> walk]

\* A git provider: its repo_path attribute, what get_git_repo_url does,
\* and what os.listdir shows of its repo_dir.
GitProvider(repo_path, url_raises, url, root_listing) ==
    [repo_path |-> repo_path, url_raises |-> url_raises, url |-> url,
     root_listing |-> root_listing]

\* get_repo_root_from_provider: the root or None, and whether the provider
\* was asked for the URL
get_repo_root_from_provider(git_provider, pr_url) ==
    IF Truthy(git_provider.repo_path)
    THEN [root |-> git_provider.repo_path, urlAsked |-> FALSE]
    ELSE IF ~Truthy(pr_url) THEN [root |-> None, urlAsked |-> FALSE]
    \* the except clause
    ELSE IF git_provider.url_raises THEN [root |-> None, urlAsked |-> TRUE]
    ELSE IF git_provider.url # <<>>
    THEN [root |-> Some(git_provider.url), urlAsked |-> TRUE]
    ELSE [root |-> None, urlAsked |-> TRUE]

\* Mutant: only the value False disables, a missing key does not.
ContextDisabled_MissingKeyEnables(enabled) == enabled = "False"

\* get("repo_context_enabled", False) is False, in get_context_str
ContextDisabled(enabled) == enabled \in {"False", "Absent"}

\* What one call of get_context_str did.
NoTrace ==
    [rootResolved |-> FALSE, urlAsked |-> FALSE, tmpCreated |-> FALSE,
     tmpRemoved |-> FALSE, cloneCalled |-> FALSE, listed |-> FALSE,
     analyzed |-> FALSE, formatted |-> FALSE, raisedIn |-> "none",
     failed |-> {}]

\* The outcome of get_context_str: the value or the exception, the analysis
\* it ran if any, and what it did.
ContextStrResult(raised, value, analysis, trace) ==
    [raised |-> raised, value |-> value, ran |-> analysis.ran,
     self |-> analysis.self, appended |-> analysis.appended, trace |-> trace]

NoAnalysis ==
    [context |-> EmptyContext, self |-> AnalyzerFields(NoFileSet, None),
     failed |-> {}, ran |-> FALSE, appended |-> NoAppends]

\* Mutant: the exception is logged and raised again.
ContextStrHandler_Reraise(analysis, trace) ==
    ContextStrResult(TRUE, <<>>, analysis, trace)

\* What the except clause of get_context_str does with an exception.
ContextStrHandler(analysis, trace) ==
    ContextStrResult(FALSE, <<>>, analysis, trace)

\* What can go wrong in one call: TemporaryDirectory() raises, clone raises
\* or returns nothing, the removal of the temporary directory raises,
\* _format_context raises.
ProviderFaults ==
    {"none", "tmpdir", "clone_raises", "clone_none", "cleanup", "format"}

\* Leaving the with block were TemporaryDirectory a plain mkdtemp: nothing
\* is removed.
LeaveTmpDir_NoRemoval(fault) == FALSE

\* Leaving "with TemporaryDirectory() as tmp_dir": the directory is removed,
\* unless the removal itself fails
LeaveTmpDir(fault) == fault # "cleanup"

\* get_context_str from "if not context" on
FormatOrEmpty(analysis, trace, fault) ==
    LET t == [trace EXCEPT !.analyzed = TRUE, !.failed = analysis.failed]
    IN  IF analysis.context.empty THEN ContextStrResult(FALSE, <<>>, analysis, t)
        ELSE IF fault = "format"
        THEN ContextStrHandler(analysis, [t EXCEPT !.raisedIn = "format"])
        ELSE ContextStrResult(FALSE, _format_context(analysis.context), analysis,
                              [t EXCEPT !.formatted = TRUE])

\* repo_files or None
OrNone(repo_files) == IF repo_files = <<>> THEN None ELSE Some(repo_files)

\* get_context_str up to the call of the analyzer.  kind: "disabled" (the
\* gate), "raise" (an exception before the analysis), "cleanup" (the
\* analysis runs and leaving the with block raises) or "analyze"; repo_files
\* and repo_root are the arguments of the analysis; trace is what was done,
\* the removal of the temporary directory on leaving the with block
\* included.  listing is _list_repo_files of the directory that is listed.
ContextStrPlan(enabled, fault, resolved, listing) ==
    LET removed == LeaveTmpDir(fault)
        t0 == [NoTrace EXCEPT !.rootResolved = TRUE,
                              !.urlAsked = resolved.urlAsked]
        plan(kind, repo_files, root, trace) ==
            [kind |-> kind, repo_files |-> repo_files, repo_root |-> root,
             trace |-> trace]
    IN  IF ContextDisabled(enabled) THEN plan("disabled", None, None, NoTrace)
        \* the branch of a local directory
        ELSE IF Truthy(resolved.root) /\ IsDir(resolved.root.v)
        THEN IF listing.raised
             THEN plan("raise", None, None,
                       [t0 EXCEPT !.listed = TRUE, !.raisedIn = "listing"])
             ELSE plan("analyze", OrNone(listing.files), resolved.root,
                       [t0 EXCEPT !.listed = TRUE])
        \* the branch of the clone; leaving the with block removes the
        \* directory, unless that fails
        ELSE IF Truthy(resolved.root)
        THEN IF fault = "tmpdir"
             THEN plan("raise", None, None, [t0 EXCEPT !.raisedIn = "tmpdir"])
             ELSE IF fault = "clone_raises"
             THEN plan("raise", None, None,
                       [t0 EXCEPT !.tmpCreated = TRUE, !.cloneCalled = TRUE,
                                  !.tmpRemoved = removed, !.raisedIn = "clone"])
             ELSE IF fault = "clone_none"
             THEN plan("analyze", None, None,
                       [t0 EXCEPT !.tmpCreated = TRUE, !.cloneCalled = TRUE,
                                  !.tmpRemoved = removed])
             ELSE IF listing.raised
             THEN plan("raise", None, None,
                       [t0 EXCEPT !.tmpCreated = TRUE, !.cloneCalled = TRUE,
                                  !.listed = TRUE, !.tmpRemoved = removed,
                                  !.raisedIn = "listing"])
             ELSE plan(IF fault = "cleanup" THEN "cleanup" ELSE "analyze",
                       OrNone(listing.files), Some(TmpDir),
                       [t0 EXCEPT !.tmpCreated = TRUE, !.cloneCalled = TRUE,
                                  !.listed = TRUE, !.tmpRemoved = removed])
        ELSE plan("analyze", None, None, t0)

\* get_context_str from the call of the analyzer on
ContextStrFinish(plan, analysis, fault) ==
    IF plan.kind = "disabled"
    THEN ContextStrResult(FALSE, <<>>, NoAnalysis, NoTrace)
    ELSE IF plan.kind = "raise" THEN ContextStrHandler(NoAnalysis, plan.trace)
    ELSE IF plan.kind = "cleanup"
    THEN ContextStrHandler(analysis,
                           [plan.trace EXCEPT !.analyzed = TRUE,
                                              !.failed = analysis.failed,
                                              !.raisedIn = "cleanup"])
    ELSE FormatOrEmpty(analysis, plan.trace, fault)

\* the analysis of a plan
ContextStrAnalyze(enabled, modified_files, order, root_listing, fault, plan) ==
    ContextStrFinish(plan,
                     Analysis(enabled, modified_files, plan.repo_files,
                              plan.repo_root, order, root_listing),
                     fault)

\* the directory that get_context_str lists: the local directory or the
\* clone
ListedDir(root) == IF Truthy(root) /\ IsDir(root.v) THEN root.v ELSE TmpDir

\* the plan of a resolved root
ContextStrResolved(enabled, max_files, fault, resolved) ==
    ContextStrPlan(enabled, fault, resolved,
                   _list_repo_files(ListedDir(resolved.root), max_files))

\* get_context_str(modified_files, pr_url)
get_context_str(enabled, git_provider, max_files, modified_files, pr_url, fault, order) ==
    ContextStrAnalyze(enabled, modified_files, order, git_provider.root_listing,
                      fault,
                      ContextStrResolved(enabled, max_files, fault,
                          get_repo_root_from_provider(git_provider, pr_url)))

\* What the except clause of get_repo_context does with an exception.
RepoContextHandler(r) == [r EXCEPT !.raised = FALSE, !.value = <<>>]

\* get_repo_context(git_provider, modified_files, pr_url), where r is the
\* outcome of get_context_str on the new provider it makes
get_repo_context(r) == IF r.raised THEN RepoContextHandler(r) ELSE r

(***************************************************************************)
(* State.                                                                  *)
(***************************************************************************)
VARIABLES
    \* ---- repo_context_cache.py: configuration, clock and the cache directory
    cfgCacheEnabled,  \* config.enable_repo_context_cache: "True", "False", "Absent"
    cfgTtl,           \* config.repo_context_cache_ttl_hours, as [ok, ticks]
    now,              \* time.time(), in ticks
    dirState,         \* <base>/repo_context: "present", "absent", "blocked"
    files,            \* file name -> content of the file (NoFile: no such file)
    lastOp,           \* the last finished cache call with what it saw and returned
    purged,           \* file names removed on expiry and not written since
    setAt,            \* file name -> time (ticks) of the last completed write, -1 if none
    fileText,         \* file name -> the characters of the file, while calls interleave
    setCalls,         \* concurrent caller -> how far its set_cached_context is
    getCall,          \* how far a get_cached_context that runs beside them is
    \* ---- repo_context.py: configuration, environment, analyzer and provider
    cfgEnabled,       \* config.repo_context_enabled: "True", "False", "Absent", "Zero"
    cfgMaxFiles,      \* config.repo_context_max_files, as [ok, n]
    hashOrder,        \* the order in which this process enumerates a set of layers
    provider,     \* the git provider of the pull request
    analyzer,         \* _repo_files_set and _repo_root of the provider's analyzer
    lastCall          \* the last finished call with its arguments and outcome

cacheVars ==
    <<cfgCacheEnabled, cfgTtl, now, dirState, files, lastOp, purged, setAt,
      fileText, setCalls, getCall>>

contextVars == <<cfgEnabled, cfgMaxFiles, hashOrder, provider, analyzer, lastCall>>

vars == <<cfgCacheEnabled, cfgTtl, now, dirState, files, lastOp, purged, setAt,
          fileText, setCalls, getCall,
          cfgEnabled, cfgMaxFiles, hashOrder, provider, analyzer, lastCall>>

(***************************************************************************)
(* repo_context_cache.py                                                   *)
(***************************************************************************)
\* Two formatted context texts, and "".
EmptyText == <<>>
TextA == <<"#", " ", "R", "e", "p", "o", "s", "i", "t", "o", "r", "y", " ", "C", "o", "n", "t", "e", "x", "t", "\n", "\n", "#", "#", " ", "C", "o", "d", "e", " ", "P", "a", "t", "t", "e", "r", "n", "s", "\n", "-", " ", "T", "e", "s", "t", "i", "n", "g", ":", " ", "u", "n", "k", "n", "o", "w", "n", "\n">>
TextB == <<"#", " ", "R", "e", "p", "o", "s", "i", "t", "o", "r", "y", " ", "C", "o", "n", "t", "e", "x", "t", "\n", "\n", "#", "#", " ", "C", "o", "d", "e", " ", "P", "a", "t", "t", "e", "r", "n", "s", "\n", "-", " ", "T", "e", "s", "t", "i", "n", "g", ":", " ", "d", "e", "t", "e", "c", "t", "e", "d", "\n">>
CacheTexts == {EmptyText, TextA, TextB}

\* Repository full names: "a/b" and "a__b" differ only in the separator.
KeyAB == <<"a", "/", "b">>
KeyA__B == <<"a", "_", "_", "b">>
Keys == {KeyAB, KeyA__B}

\* _cache_file_for_repo: the file name inside the cache directory
_cache_file_for_repo(repo_full_name) ==
    Replace(repo_full_name, <<"/">>, <<"_", "_">>) \o <<".", "j", "s", "o", "n">>

\* The file of every key of the model.
CacheFile == [k \in Keys |-> _cache_file_for_repo(k)]

FileNames == {CacheFile[k] : k \in Keys}

\* What a file of the cache directory can hold.
NoTs == [num |-> FALSE, v |-> 0]
NumTs(n) == [num |-> TRUE, v |-> n]
NoFile == [kind |-> "none", repo |-> <<>>, context |-> EmptyText, ts |-> NoTs]
\* not JSON at all (also a torn or truncated write)
Garbage == [kind |-> "garbage", repo |-> <<>>, context |-> EmptyText, ts |-> NoTs]
\* valid JSON that is not an object
JsonOther == [kind |-> "json_other", repo |-> <<>>, context |-> EmptyText, ts |-> NoTs]
\* the payload of set_cached_context; a foreign record may carry a non-numeric ts
Payload(repo, context, ts) ==
    [kind |-> "object", repo |-> repo, context |-> context, ts |-> ts]

\* a cache miss (None) and a hit
Miss == [hit |-> FALSE, text |-> EmptyText]
Hit(text) == [hit |-> TRUE, text |-> text]

\* int(x) of a non-negative number of ticks: whole seconds
IntSecs(ticks) == ticks \div TicksPerSec

(***************************************************************************)
(* json.dump and json.load on the characters of a cache file, for the      *)
(* texts that calls of set_cached_context write: objects whose members are *)
(* strings and integers.                                                   *)
(***************************************************************************)
DigitSeq == <<"0", "1", "2", "3", "4", "5", "6", "7", "8", "9">>

\* str(n) of a non-negative int
RECURSIVE IntText(_)
IntText(n) ==
    IF n < 10 THEN <<DigitSeq[n + 1]>>
    ELSE IntText(n \div 10) \o <<DigitSeq[(n % 10) + 1]>>

\* the two-character escapes of json, by the character after the backslash
JsonUnescape ==
    ("n" :> "\n") @@ ("t" :> "\t") @@ ("r" :> "\r") @@ ("\"" :> "\"")
        @@ ("\\" :> "\\") @@ ("/" :> "/")

\* a character inside a JSON string, as json.dump writes it
JsonEscape(c) ==
    IF c = "\n" THEN <<"\\", "n">>
    ELSE IF c = "\t" THEN <<"\\", "t">>
    ELSE IF c = "\r" THEN <<"\\", "r">>
    ELSE IF c = "\"" THEN <<"\\", "\"">>
    ELSE IF c = "\\" THEN <<"\\", "\\">>
    ELSE <<c>>

\* json.dumps of a str
RECURSIVE JsonEscaped(_)
JsonEscaped(s) ==
    IF s = <<>> THEN <<>> ELSE JsonEscape(Head(s)) \o JsonEscaped(Tail(s))
JsonString(s) == <<"\"">> \o JsonEscaped(s) \o <<"\"">>

\* json.dump of {"repo": repo, "context": context, "ts": ts}
JsonDump(repo, context, ts) ==
    <<"{", "\"", "r", "e", "p", "o", "\"", ":", " ">> \o JsonString(repo)
        \o <<",", " ", "\"", "c", "o", "n", "t", "e", "x", "t", "\"", ":", " ">> \o JsonString(context)
        \o <<",", " ", "\"", "t", "s", "\"", ":", " ">> \o IntText(ts) \o <<"}">>

\* What the decoder makes of a text: ok FALSE when it raises; a value that
\* is a str (str, s) or an int (n); the members of an object; next is the
\* position after what was read.
JsonFail ==
    [ok |-> FALSE, object |-> FALSE, str |-> FALSE, s |-> <<>>, n |-> 0,
     members |-> <<>>, next |-> 0]
JsonStr(s, next) == [JsonFail EXCEPT !.ok = TRUE, !.str = TRUE, !.s = s, !.next = next]
JsonInt(n, next) == [JsonFail EXCEPT !.ok = TRUE, !.n = n, !.next = next]
JsonObject(members, next) ==
    [JsonFail EXCEPT !.ok = TRUE, !.object = TRUE, !.members = members,
                     !.next = next]

\* the position of the first character from pos on that is not whitespace
JsonSkip(text, pos) == pos + RunLen(Cls(SpaceChars), text, pos)

\* a string whose opening quote is before pos; acc is what was read of it
RECURSIVE JsonStringFrom(_, _, _)
JsonStringFrom(text, pos, acc) ==
    IF pos > Len(text) THEN JsonFail
    ELSE IF text[pos] = "\"" THEN JsonStr(acc, pos + 1)
    ELSE IF text[pos] = "\\"
    THEN IF pos + 1 <= Len(text) /\ text[pos + 1] \in DOMAIN JsonUnescape
         THEN JsonStringFrom(text, pos + 2,
                             Append(acc, JsonUnescape[text[pos + 1]]))
         ELSE JsonFail
    \* a control character inside a string is an error
    ELSE IF text[pos] \in {"\n", "\t", "\r"} THEN JsonFail
    ELSE JsonStringFrom(text, pos + 1, Append(acc, text[pos]))

\* int() of a run of digits
RECURSIVE DigitsValue(_)
DigitsValue(digits) ==
    IF digits = <<>> THEN 0
    ELSE 10 * DigitsValue(SubSeq(digits, 1, Len(digits) - 1))
           + (CHOOSE d \in 0..9 : DigitSeq[d + 1] = digits[Len(digits)])

\* an integer at pos: an optional minus sign, then 0 or digits that do not
\* begin with 0
JsonIntAt(text, pos) ==
    LET first == IF pos <= Len(text) /\ text[pos] = "-" THEN pos + 1 ELSE pos
        run == RunLen(Cls(DigitChars), text, first)
        len == IF run > 0 /\ text[first] = "0" THEN 1 ELSE run
        value == DigitsValue(SubSeq(text, first, first + len - 1))
    IN  IF run = 0 THEN JsonFail
        ELSE JsonInt(IF first > pos THEN 0 - value ELSE value, first + len)

\* a value at pos: a string or an integer
JsonValueAt(text, pos) ==
    IF pos > Len(text) THEN JsonFail
    ELSE IF text[pos] = "\"" THEN JsonStringFrom(text, pos + 1, <<>>)
    ELSE JsonIntAt(text, pos)

\* the member that begins at pos, and where the text goes on after it
JsonMemberAt(text, pos) ==
    LET key == IF pos <= Len(text) /\ text[pos] = "\""
               THEN JsonStringFrom(text, pos + 1, <<>>) ELSE JsonFail
        colon == JsonSkip(text, key.next)
        val == JsonValueAt(text, JsonSkip(text, colon + 1))
    IN  IF ~key.ok \/ colon > Len(text) THEN JsonFail
        ELSE IF text[colon] # ":" \/ ~val.ok THEN JsonFail
        ELSE [val EXCEPT !.members = <<[key |-> key.s, str |-> val.str,
                                        s |-> val.s, n |-> val.n]>>,
                         !.next = JsonSkip(text, val.next)]

\* the members of an object from the member at pos on, up to the closing
\* brace; acc is the members read before
RECURSIVE JsonMembersFrom(_, _, _)
JsonMembersFrom(text, pos, acc) ==
    LET member == JsonMemberAt(text, pos)
    IN  IF ~member.ok \/ member.next > Len(text) THEN JsonFail
        ELSE IF text[member.next] = "}"
        THEN JsonObject(acc \o member.members, member.next + 1)
        ELSE IF text[member.next] = ","
        THEN JsonMembersFrom(text, JsonSkip(text, member.next + 1),
                             acc \o member.members)
        ELSE JsonFail

\* the one value of the text, from its first character that is not
\* whitespace
JsonDocument(text, pos) ==
    IF pos > Len(text) THEN JsonFail
    ELSE IF text[pos] # "{" THEN JsonValueAt(text, pos)
    ELSE IF JsonSkip(text, pos + 1) <= Len(text)
              /\ text[JsonSkip(text, pos + 1)] = "}"
    THEN JsonObject(<<>>, JsonSkip(text, pos + 1) + 1)
    ELSE JsonMembersFrom(text, JsonSkip(text, pos + 1), <<>>)

\* json.load: the value of the text; characters after the value other than
\* whitespace are an error ("Extra data")
JsonChecked(text, doc) ==
    IF doc.ok /\ JsonSkip(text, doc.next) > Len(text) THEN doc ELSE JsonFail
JsonLoad(text) == JsonChecked(text, JsonDocument(text, JsonSkip(text, 1)))

\* data.get(key): the last member of that key, if any
JsonGet(data, key) ==
    LET at == {i \in 1..Len(data.members) : data.members[i].key = key}
    IN  IF at = {} THEN JsonFail ELSE [JsonFail EXCEPT !.ok = TRUE,
                                         !.str = data.members[SetMax(at)].str,
                                         !.s = data.members[SetMax(at)].s,
                                         !.n = data.members[SetMax(at)].n]

\* What get_cached_context finds in a file that holds text: nothing it can
\* decode, a value that is no object, or an object with its "context" and
\* its "ts" (0 when there is none)
DecodedAs(data) ==
    IF ~data.ok THEN Garbage
    ELSE IF ~data.object THEN JsonOther
    ELSE Payload(JsonGet(data, <<"r", "e", "p", "o">>).s,
                 JsonGet(data, <<"c", "o", "n", "t", "e", "x", "t">>).s,
                 IF ~JsonGet(data, <<"t", "s">>).ok THEN NumTs(0)
                 ELSE IF JsonGet(data, <<"t", "s">>).str THEN NoTs
                 ELSE NumTs(JsonGet(data, <<"t", "s">>).n))

\* The characters of a file, or no file.
NoText == [exists |-> FALSE, text |-> <<>>]
TextOf(text) == [exists |-> TRUE, text |-> text]
Decoded(file) == IF ~file.exists THEN NoFile ELSE DecodedAs(JsonLoad(file.text))

\* write() of text at offset 0 of a file that holds old: the characters of
\* old after the end of text stay
Overwrite(old, text) == text \o SubSeq(old, Len(text) + 1, Len(old))

\* Mutant: the gate reads the flag the wrong way round.
CacheDisabled_Inverted == cfgCacheEnabled # "False"

\* not get_settings().get("config.enable_repo_context_cache", True)
CacheDisabled == cfgCacheEnabled = "False"

\* os.makedirs(path, exist_ok=True) in _get_cache_dir: raises when the
\* directory cannot be created
MakedirsRaises == dirState = "blocked"

\* Mutant: the comparison with the expiry time is turned around.
IsExpired_Inverted(ts, ttlTicks, t) == t < (ts + IntSecs(ttlTicks)) * TicksPerSec

\* Mutant: a record expires already at its expiry time, not after it.
IsExpired_OffByOne(ts, ttlTicks, t) == t >= (ts + IntSecs(ttlTicks)) * TicksPerSec

\* time.time() > data["ts"] + int(ttl_hours * 3600)
IsExpired(ts, ttlTicks, t) == t > (ts + IntSecs(ttlTicks)) * TicksPerSec

\* Faults of one call: the environment decides whether open(), os.remove()
\* or the write of the payload fails.
GetFaults == {"none", "open", "remove"}
SetFaults == {"none", "open", "write"}

\* Mutant: the exception is logged and raised again.
GetHandler_Reraise(dir, fs) ==
    [raised |-> TRUE, value |-> Miss, dir |-> dir, files |-> fs, removed |-> FALSE]

\* What the except clause of get_cached_context does with an exception.
GetHandler(dir, fs) ==
    [raised |-> FALSE, value |-> Miss, dir |-> dir, files |-> fs, removed |-> FALSE]

\* get_cached_context(repo_full_name): the outcome of the call, the directory
\* state and the files after it
get_cached_context(repo_full_name, fault) ==
    LET f == CacheFile[repo_full_name]
        same == [raised |-> FALSE, value |-> Miss, dir |-> dirState,
                 files |-> files, removed |-> FALSE]
        made == [same EXCEPT !.dir = "present"]
        data == files[f]
    IN  IF CacheDisabled THEN same
        ELSE IF MakedirsRaises THEN GetHandler(dirState, files)
        ELSE IF data.kind = "none" THEN made
        \* open() or json.load() raises
        ELSE IF fault = "open" \/ data.kind = "garbage" THEN GetHandler("present", files)
        \* float(ttl_hours) raises
        ELSE IF ~cfgTtl.ok THEN GetHandler("present", files)
        ELSE IF cfgTtl.ticks <= 0 THEN made
        \* data.get on a non-object, or ts + int on a non-number
        ELSE IF data.kind = "json_other" \/ ~data.ts.num THEN GetHandler("present", files)
        ELSE IF IsExpired(data.ts.v, cfgTtl.ticks, now)
        THEN IF fault = "remove" THEN made
             ELSE [made EXCEPT !.files = [files EXCEPT ![f] = NoFile],
                               !.removed = TRUE]
        ELSE IF data.context = EmptyText THEN made
        ELSE [made EXCEPT !.value = Hit(data.context)]

\* What the except clause of set_cached_context does with an exception.
SetHandler(dir, fs) == [raised |-> FALSE, dir |-> dir, files |-> fs, wrote |-> FALSE]

\* set_cached_context(repo_full_name, context)
set_cached_context(repo_full_name, context, fault) ==
    LET f == CacheFile[repo_full_name]
        payload == Payload(repo_full_name, context, NumTs(IntSecs(now)))
    IN  IF CacheDisabled
        THEN [raised |-> FALSE, dir |-> dirState, files |-> files, wrote |-> FALSE]
        ELSE IF MakedirsRaises THEN SetHandler(dirState, files)
        \* open(cache_file, "w") raises: the file is as it was
        ELSE IF fault = "open" THEN SetHandler("present", files)
        \* json.dump raises after open truncated the file
        ELSE IF fault = "write"
        THEN SetHandler("present", [files EXCEPT ![f] = Garbage])
        ELSE [raised |-> FALSE, dir |-> "present",
              files |-> [files EXCEPT ![f] = payload], wrote |-> TRUE]

(***************************************************************************)
(* The cache as a state machine: calls of get and set, and the clock.      *)
(***************************************************************************)
\* repo_context_cache_ttl_hours * 3600 ranges over MinTtl..MaxTtl ticks.
MaxTtl == 3
TtlConfigs ==
    {[ok |-> TRUE, ticks |-> t] : t \in (0 - 1)..MaxTtl} \cup {[ok |-> FALSE, ticks |-> 0]}

\* The keys whose record lives in file f.
KeysOf(f) == {k \in Keys : CacheFile[k] = f}

\* Files found in the cache directory at start: left by earlier runs.
InitContents(f) ==
    {NoFile, Garbage, JsonOther}
        \cup {Payload(k, TextA, ts) : k \in KeysOf(f), ts \in {NumTs(0), NoTs}}

\* The analyzer of a new provider.
NewAnalyzer == AnalyzerFields(NoFileSet, None)

\* A provider that knows no checkout and no URL.
NoRepoProvider == GitProvider(None, FALSE, <<>>, [raises |-> TRUE, names |-> {}])

\* repo_context_max_files is missing: the default
DefaultMaxFiles == [ok |-> TRUE, n |-> 50]

NoCall ==
    [op |-> "none", modified_files |-> <<>>, repo_files |-> None,
     repo_root |-> None, root_listing |-> [raises |-> TRUE, names |-> {}],
     pr_url |-> None, fault |-> "none",
     file_path |-> <<>>, contents |-> <<>>, module_name |-> <<>>,
     fileset |-> NoFileSet, max_files |-> DefaultMaxFiles, listing |-> <<>>,
     resolved |-> {},
     after |-> [modified_files |-> <<>>, repo_files |-> None],
     held_files |-> FALSE,
     context |-> EmptyContext, failed |-> {}, ran |-> FALSE,
     raised |-> FALSE, value |-> <<>>, trace |-> NoTrace]

\* No repository context is asked for.
ContextIdle ==
    /\ cfgEnabled = "Absent"
    /\ cfgMaxFiles = DefaultMaxFiles
    /\ hashOrder = CHOOSE o \in LayerOrders : TRUE
    /\ provider = NoRepoProvider
    /\ analyzer = NewAnalyzer
    /\ lastCall = NoCall

\* The callers that may run set_cached_context at the same time.
NumWriters == 2
Writers == 1..NumWriters

\* A caller that has not called, and one whose call is at pc: "opened" after
\* open(cache_file, "w"), "detached" when the file it has open was removed
\* from the directory since, "returned" after the call.
NotCalled ==
    [pc |-> "idle", key |-> <<>>, context |-> EmptyText, payload |-> <<>>,
     wrote |-> FALSE]
SetCall(pc, repo_full_name, context, payload, wrote) ==
    [pc |-> pc, key |-> repo_full_name, context |-> context,
     payload |-> payload, wrote |-> wrote]

\* No call of get_cached_context is under way, and one that has found the
\* record of repo_full_name expired and has not yet called os.remove.
NoGet == [pc |-> "idle", key |-> <<>>]
GetRemoving(repo_full_name) == [pc |-> "removing", key |-> repo_full_name]

\* No call is under way, and no file is followed by its characters.
NoWriters ==
    /\ fileText = [f \in FileNames |-> NoText]
    /\ setCalls = [w \in Writers |-> NotCalled]
    /\ getCall = NoGet

NoOp ==
    [op |-> "none", key |-> <<>>, text |-> EmptyText, fault |-> "none",
     raised |-> FALSE, value |-> Miss, removed |-> FALSE]

CacheInit ==
    /\ cfgCacheEnabled \in {"True", "False", "Absent"}
    /\ cfgTtl \in TtlConfigs
    /\ now = 0
    /\ dirState \in {"present", "absent", "blocked"}
    /\ files \in [FileNames -> UNION {InitContents(f) : f \in FileNames}]
    /\ \A f \in FileNames : files[f] \in InitContents(f)
    /\ dirState # "present" => \A f \in FileNames : files[f] = NoFile
    /\ lastOp = NoOp
    /\ purged = {}
    /\ setAt = [f \in FileNames |-> 0 - 1]
    /\ NoWriters
    /\ ContextIdle

\* A call get_cached_context(k).
GetCached(k) ==
    \E fault \in GetFaults :
        LET r == get_cached_context(k, fault)
            f == CacheFile[k]
        IN  /\ files' = r.files
            /\ dirState' = r.dir
            /\ lastOp' = [op |-> "get", key |-> k, text |-> EmptyText,
                          fault |-> fault, raised |-> r.raised,
                          value |-> r.value, removed |-> r.removed]
            /\ purged' = IF r.removed THEN purged \cup {f} ELSE purged
            /\ setAt' = IF r.removed THEN [setAt EXCEPT ![f] = 0 - 1] ELSE setAt
            /\ UNCHANGED <<cfgCacheEnabled, cfgTtl, now, fileText, setCalls, getCall>>
            /\ UNCHANGED contextVars

\* A call set_cached_context(k, c).
SetCached(k, c) ==
    \E fault \in SetFaults :
        LET r == set_cached_context(k, c, fault)
            f == CacheFile[k]
        IN  /\ files' = r.files
            /\ dirState' = r.dir
            /\ lastOp' = [op |-> "set", key |-> k, text |-> c,
                          fault |-> fault, raised |-> r.raised,
                          value |-> Miss, removed |-> FALSE]
            /\ purged' = IF r.files[f] # NoFile THEN purged \ {f} ELSE purged
            /\ setAt' = IF r.wrote THEN [setAt EXCEPT ![f] = now]
                         ELSE IF r.files[f] # files[f] THEN [setAt EXCEPT ![f] = 0 - 1]
                         ELSE setAt
            /\ UNCHANGED <<cfgCacheEnabled, cfgTtl, now, fileText, setCalls, getCall>>
            /\ UNCHANGED contextVars

\* Time passes.
Tick ==
    /\ now < MaxNow
    /\ now' = now + 1
    /\ UNCHANGED <<cfgCacheEnabled, cfgTtl, dirState, files, lastOp, purged, setAt,
                   fileText, setCalls, getCall>>
    /\ UNCHANGED contextVars

CacheNext ==
    \/ \E k \in Keys : GetCached(k)
    \/ \E k \in Keys, c \in CacheTexts : SetCached(k, c)
    \/ Tick

SpecCache == CacheInit /\ [][CacheNext]_vars

(***************************************************************************)
(* Calls of set_cached_context by several callers at the same time, step   *)
(* by step, on the characters of the file, with calls of                   *)
(* get_cached_context in between, one of which may stand between reading   *)
(* an expired record and removing its file.  The clock stands still: the   *)
(* directory is empty at time 0, or holds a record of time 0 at time       *)
(* MaxNow.                                                                 *)
(***************************************************************************)
\* The contexts that the callers store: two short texts of different
\* lengths.
ShortText == <<"#", " ", "P", "y", "\n">>
LongText == <<"#", " ", "J", "a", "v", "a", "\n">>
WriterTexts == {ShortText, LongText}

\* What a finished call of set_cached_context leaves in the history
\* variables of the cache.
SetFinished(repo_full_name, context, fault) ==
    /\ lastOp' = [op |-> "set", key |-> repo_full_name, text |-> context,
                  fault |-> fault, raised |-> FALSE, value |-> Miss,
                  removed |-> FALSE]

\* set_cached_context(k, c) of caller w up to and including
\* open(cache_file, "w"): the gate, the cache directory, the payload with the
\* time of this moment, and open, which empties the file.
SetOpen(w, k, c) ==
    \E fault \in {"none", "open"} :
        LET f == CacheFile[k]
            payload == JsonDump(k, c, IntSecs(now))
        IN  /\ setCalls[w].pc = "idle"
            /\ IF CacheDisabled \/ MakedirsRaises
               THEN /\ setCalls' = [setCalls EXCEPT
                                       ![w] = SetCall("returned", k, c, <<>>, FALSE)]
                    /\ SetFinished(k, c, fault)
                    /\ UNCHANGED <<dirState, files, fileText, purged, setAt>>
               ELSE IF fault = "open"
               THEN /\ setCalls' = [setCalls EXCEPT
                                       ![w] = SetCall("returned", k, c, <<>>, FALSE)]
                    /\ dirState' = "present"
                    /\ SetFinished(k, c, fault)
                    /\ UNCHANGED <<files, fileText, purged, setAt>>
               ELSE /\ setCalls' = [setCalls EXCEPT
                                       ![w] = SetCall("opened", k, c, payload, FALSE)]
                    /\ dirState' = "present"
                    /\ fileText' = [fileText EXCEPT ![f] = TextOf(<<>>)]
                    /\ files' = [files EXCEPT ![f] = Decoded(TextOf(<<>>))]
                    /\ purged' = purged \ {f}
                    /\ setAt' = [setAt EXCEPT ![f] = 0 - 1]
                    /\ UNCHANGED lastOp
            /\ UNCHANGED <<cfgCacheEnabled, cfgTtl, now, getCall>>
            /\ UNCHANGED contextVars

\* The rest of the call of caller w: json.dump and the end of the with
\* block.  A payload of this size stays in the buffer of the file object
\* until the file is closed, and goes to the file in one write at the
\* position of this file object, which is 0.  The write of a detached
\* caller goes to a file that no name of the directory leads to.
SetDump(w) ==
    \E fault \in {"none", "write"} :
        LET k == setCalls[w].key
            f == CacheFile[k]
            written == TextOf(Overwrite(fileText[f].text, setCalls[w].payload))
        IN  /\ setCalls[w].pc \in {"opened", "detached"}
            /\ setCalls' = [setCalls EXCEPT ![w].pc = "returned",
                                            ![w].wrote = (fault = "none")]
            /\ SetFinished(k, setCalls[w].context, fault)
            /\ IF fault = "write" \/ setCalls[w].pc = "detached"
               THEN UNCHANGED <<files, fileText, setAt>>
               ELSE /\ fileText' = [fileText EXCEPT ![f] = written]
                    /\ files' = [files EXCEPT ![f] = Decoded(written)]
                    /\ setAt' = [setAt EXCEPT ![f] = now]
            /\ UNCHANGED <<cfgCacheEnabled, cfgTtl, now, dirState, purged, getCall>>
            /\ UNCHANGED contextVars

\* A call get_cached_context(k) between the steps of the callers, up to its
\* return, or up to the test of the expiry time when the record it has read
\* is expired: os.remove is then still to come.
GetDuring(k) ==
    \E fault \in {"none", "open"} :
        LET r == get_cached_context(k, fault)
        IN  /\ getCall.pc = "idle"
            /\ dirState' = r.dir
            /\ IF r.removed
               THEN /\ getCall' = GetRemoving(k)
                    /\ UNCHANGED lastOp
               ELSE /\ lastOp' = [op |-> "get", key |-> k, text |-> EmptyText,
                                  fault |-> fault, raised |-> r.raised,
                                  value |-> r.value, removed |-> FALSE]
                    /\ UNCHANGED getCall
            /\ UNCHANGED <<cfgCacheEnabled, cfgTtl, now, files, fileText, purged,
                           setAt, setCalls>>
            /\ UNCHANGED contextVars

\* The rest of that call: os.remove(cache_file) inside its own try, and
\* return None.  os.remove takes the name out of the directory, whatever
\* the file holds by now; a file that is gone, or a failure of the
\* environment, makes it raise, which is passed over.  A caller that has the
\* file open keeps writing to it.
GetRemove ==
    \E fault \in {"none", "remove"} :
        LET k == getCall.key
            f == CacheFile[k]
            removed == fault = "none" /\ fileText[f].exists
        IN  /\ getCall.pc = "removing"
            /\ getCall' = NoGet
            /\ files' = IF removed THEN [files EXCEPT ![f] = NoFile] ELSE files
            /\ fileText' = IF removed THEN [fileText EXCEPT ![f] = NoText]
                            ELSE fileText
            /\ setCalls' =
                   [w \in Writers |->
                       IF /\ removed
                          /\ setCalls[w].pc = "opened"
                          /\ CacheFile[setCalls[w].key] = f
                       THEN [setCalls[w] EXCEPT !.pc = "detached"]
                       ELSE setCalls[w]]
            /\ lastOp' = [op |-> "get", key |-> k, text |-> EmptyText,
                          fault |-> fault, raised |-> FALSE,
                          value |-> Miss, removed |-> removed]
            /\ purged' = IF removed THEN purged \cup {f} ELSE purged
            /\ setAt' = IF removed THEN [setAt EXCEPT ![f] = 0 - 1] ELSE setAt
            /\ UNCHANGED <<cfgCacheEnabled, cfgTtl, now, dirState>>
            /\ UNCHANGED contextVars

\* The record that an earlier process left at time 0.
StaleRecord == TextOf(JsonDump(KeyAB, ShortText, 0))

\* No call under way, and an empty cache directory, or none, at time 0, or
\* a directory with the record of time 0 at time MaxNow.
WritersInit ==
    /\ cfgCacheEnabled \in {"True", "False", "Absent"}
    /\ cfgTtl = [ok |-> TRUE, ticks |-> MaxTtl]
    /\ \/ /\ now = 0
          /\ dirState \in {"present", "absent", "blocked"}
          /\ fileText = [f \in FileNames |-> NoText]
       \/ /\ now = MaxNow
          /\ dirState = "present"
          /\ fileText = [f \in FileNames |->
                            IF f = CacheFile[KeyAB] THEN StaleRecord ELSE NoText]
    /\ files = [f \in FileNames |-> Decoded(fileText[f])]
    /\ lastOp = NoOp
    /\ purged = {}
    /\ setAt = [f \in FileNames |-> 0 - 1]
    /\ setCalls = [w \in Writers |-> NotCalled]
    /\ getCall = NoGet
    /\ ContextIdle

WritersNext ==
    \/ \E w \in Writers, k \in Keys, c \in WriterTexts : SetOpen(w, k, c)
    \/ \E w \in Writers : SetDump(w)
    \/ \E k \in Keys : GetDuring(k)
    \/ GetRemove

SpecWriters == WritersInit /\ [][WritersNext]_vars

(***************************************************************************)
(* The analyzer as a state machine: calls of get_repository_context and of *)
(* the import resolver on one analyzer.                                    *)
(***************************************************************************)
\* What the analyzer machine passes to get_repository_context.
AnalyzerRepoFiles ==
    {None, Some(FullListing), Some(DirListing), Some(OddListing)}
AnalyzerRoots == {None, Some(LocalRoot)}
\* the modified files of its calls: files, no directory
AnalyzerModified ==
    {m \in ModifiedChoices : \A i \in 1..Len(m) : ~EndsWith(m[i], <<"/">>)}

\* The source files of the tree, for the calls of the resolver, and the
\* outcome of each call.
ResolveCalls ==
    {RepoTree[i] : i \in {i \in 1..Len(RepoTree) :
                             _is_import_scannable(RepoTree[i].path)}}

ResolvedOf ==
    Tabulated([c \in ResolveCalls |->
        Tabulated([fileset \in FileSets |->
            _resolve_imports(c.path, c.contents, fileset)])])

AnalyzerInit ==
    /\ cfgEnabled \in EnabledConfigs
    /\ cfgMaxFiles = DefaultMaxFiles
    /\ hashOrder \in LayerOrders
    /\ provider = NoRepoProvider
    /\ analyzer = NewAnalyzer
    /\ lastCall = NoCall
    /\ cfgCacheEnabled = "Absent"
    /\ cfgTtl = [ok |-> TRUE, ticks |-> MaxTtl]
    /\ now = 0
    /\ dirState = "absent"
    /\ files = [f \in FileNames |-> NoFile]
    /\ lastOp = NoOp
    /\ purged = {}
    /\ setAt = [f \in FileNames |-> 0 - 1]
    /\ NoWriters

\* The lists the caller passed as modified_files and repo_files, as they
\* are once the call has appended what it appended to them.
ListsAfter(modified_files, repo_files, appended) ==
    [modified_files |-> modified_files \o appended.modified_files,
     repo_files |-> IF repo_files.none THEN None
                    ELSE Some(repo_files.v \o appended.repo_files)]

\* What is recorded of a call get_repository_context(modified_files,
\* repo_files, repo_root) that returns r.
AnalyzeRecord(modified_files, repo_files, repo_root, root_listing, r) ==
    [NoCall EXCEPT !.op = "get_repository_context",
                   !.modified_files = modified_files,
                   !.repo_files = repo_files,
                   !.after = ListsAfter(modified_files, repo_files, r.appended),
                   !.repo_root = repo_root,
                   !.root_listing = root_listing,
                   !.context = r.context,
                   !.failed = r.failed,
                   !.ran = r.ran]

\* The call get_repository_context(modified_files, repo_files, repo_root)
\* returns r.
AnalyzeReturns(modified_files, repo_files, repo_root, root_listing, r) ==
    /\ analyzer' = IF r.ran THEN r.self ELSE analyzer
    /\ lastCall' = AnalyzeRecord(modified_files, repo_files, repo_root,
                                 root_listing, r)
    /\ UNCHANGED <<cfgEnabled, cfgMaxFiles, hashOrder, provider>>
    /\ UNCHANGED cacheVars

\* A call get_repository_context(modified_files, repo_files, repo_root).
AnalyzeCall(modified_files, repo_files, repo_root, root_listing) ==
    AnalyzeReturns(modified_files, repo_files, repo_root, root_listing,
                   Analysis(cfgEnabled, modified_files, repo_files, repo_root,
                            hashOrder, root_listing))

\* A call _resolve_imports(file_path, contents) with the file set the
\* analyzer holds.
ResolveCall(c) ==
    /\ lastCall' = [NoCall EXCEPT !.op = "_resolve_imports",
                                  !.file_path = c.path,
                                  !.contents = c.contents,
                                  !.fileset = analyzer.repo_files_set,
                                  !.resolved = ResolvedOf[c][analyzer.repo_files_set]]
    /\ UNCHANGED <<cfgEnabled, cfgMaxFiles, hashOrder, provider, analyzer>>
    /\ UNCHANGED cacheVars

\* The setting repo_context_enabled, which get_repository_context reads at
\* every call, is given another value between two calls.
Configure(enabled) ==
    /\ enabled # cfgEnabled
    /\ cfgEnabled' = enabled
    /\ lastCall' = [NoCall EXCEPT !.op = "configure"]
    /\ UNCHANGED <<cfgMaxFiles, hashOrder, provider, analyzer>>
    /\ UNCHANGED cacheVars

AnalyzerNext ==
    \/ \E modified_files \in AnalyzerModified, repo_files \in AnalyzerRepoFiles,
          repo_root \in AnalyzerRoots, root_listing \in RootListings :
           AnalyzeCall(modified_files, repo_files, repo_root, root_listing)
    \/ \E c \in ResolveCalls : ResolveCall(c)
    \/ \E enabled \in EnabledConfigs : Configure(enabled)

SpecAnalyzer == AnalyzerInit /\ [][AnalyzerNext]_vars

(***************************************************************************)
(* One analyzer that is called again and again: calls of                   *)
(* get_repository_context with and without a list of repository files and  *)
(* a root, each recorded with whether the analyzer held a file set when    *)
(* the call was made.                                                      *)
(***************************************************************************)
\* the modified files of these calls: no file, or one
ReuseModified == {m \in AnalyzerModified : Len(m) <= 1}

\* A call get_repository_context(modified_files, repo_files, repo_root) on
\* the analyzer as earlier calls left it.
AnalyzeAgain(modified_files, repo_files, repo_root, root_listing) ==
    LET r == Analysis(cfgEnabled, modified_files, repo_files, repo_root,
                      hashOrder, root_listing)
    IN  /\ analyzer' = IF r.ran THEN r.self ELSE analyzer
        /\ lastCall' = [AnalyzeRecord(modified_files, repo_files, repo_root,
                                      root_listing, r)
                           EXCEPT !.held_files = ~analyzer.repo_files_set.none]
        /\ UNCHANGED <<cfgEnabled, cfgMaxFiles, hashOrder, provider>>
        /\ UNCHANGED cacheVars

ReuseNext ==
    \/ \E modified_files \in ReuseModified, repo_files \in AnalyzerRepoFiles,
          repo_root \in AnalyzerRoots, root_listing \in RootListings :
           AnalyzeAgain(modified_files, repo_files, repo_root, root_listing)
    \/ \E enabled \in EnabledConfigs : Configure(enabled)

SpecReuse == AnalyzerInit /\ [][ReuseNext]_vars

(***************************************************************************)
(* The resolvers, the language detection and the listing as a state        *)
(* machine: an analyzer that holds a file set, and calls of                *)
(* _resolve_js_module, _resolve_python_module, _resolve_python_imports,    *)
(* _detect_primary_language and _list_repo_files with arguments from small *)
(* sets.                                                                   *)
(***************************************************************************)
\* The file sets the analyzer holds when the resolvers are called.
ResolverFileSets ==
    {NoFileSet,
     FileSetOf({<<"a", "/", "f", "o", "o", ".", "j", "s">>, <<"a", "/", "b", ".", "j", "s">>}),
     FileSetOf({<<"a", "/", "f", "o", "o", ".", "t", "s">>, <<"a", "/", "f", "o", "o", "/", "i", "n", "d", "e", "x", ".", "j", "s">>, <<"a", "/", "b", ".", "j", "s">>, <<"f", "o", "o", ".", "j", "s">>, <<"i", "n", "d", "e", "x", ".", "j", "s">>, <<"a", "/", "i", "n", "d", "e", "x", ".", "j", "s">>}),
     FileSetOf({<<"a", ".", "b", "/", "i", "n", "d", "e", "x", ".", "j", "s">>, <<"a", ".", "b", "/", "x", ".", "j", "s">>, <<"a", "/", ".", "f", "o", "o", ".", "j", "s">>}),
     FileSetOf({<<"_", "_", "i", "n", "i", "t", "_", "_", ".", "p", "y">>, <<"a", ".", "p", "y">>, <<"b", ".", "p", "y">>, <<"x", ".", "p", "y">>, <<"p", "k", "g", "/", "_", "_", "i", "n", "i", "t", "_", "_", ".", "p", "y">>, <<"p", "k", "g", "/", "b", ".", "p", "y">>}),
     FileSetOf({<<"p", "k", "g", ".", "p", "y">>, <<"p", "k", "g", "/", "s", "u", "b", "/", "m", "o", "d", ".", "p", "y">>, <<"p", "k", "g", "/", "s", "u", "b", "/", "b", ".", "p", "y">>, <<"p", "k", "g", "/", "b", "/", "_", "_", "i", "n", "i", "t", "_", "_", ".", "p", "y">>, <<"a", "/", "_", "_", "i", "n", "i", "t", "_", "_", ".", "p", "y">>})}

\* The importing files and the specifiers of the calls.
JsImporters == {<<"a", "/", "b", ".", "j", "s">>, <<"a", ".", "b", "/", "x", ".", "j", "s">>}
JsSpecifiers ==
    {<<".", "/", "f", "o", "o">>, <<".", "/", "f", "o", "o", ".", "j", "s">>, <<".", ".", "/", "f", "o", "o">>, <<".", "/">>, <<".">>, <<".", "f", "o", "o">>, <<"f", "o", "o">>, <<"b", ".", "j", "s">>}
PyImporters == {<<"p", "k", "g", "/", "s", "u", "b", "/", "m", "o", "d", ".", "p", "y">>, <<"p", "k", "g", "/", "a", ".", "p", "y">>, <<"a", ".", "p", "y">>}
PyModuleNames ==
    {<<".">>, <<".", ".">>, <<".", "b">>, <<".", ".", "b">>, <<"b">>, <<"p", "k", "g", ".", "b">>, <<>>}
\* Sources of the file x.py.
PySources ==
    {<<"i", "m", "p", "o", "r", "t", " ", "a", "\n", "i", "m", "p", "o", "r", "t", " ", "b", "\n">>,
     <<"i", "m", "p", "o", "r", "t", " ", "a", ",", " ", "b">>,
     <<"i", "m", "p", "o", "r", "t", " ", "a", " ", "a", "s", " ", "z", "\n", "x", " ", "=", " ", "1", "\n">>,
     <<"i", "m", "p", "o", "r", "t", " ", "p", "k", "g", ".", "b", "\n">>,
     <<"x", " ", "=", " ", "1", "\n">>}
PySourceFile == <<"x", ".", "p", "y">>

\* The lists of paths whose language is detected.
LanguagePool == {<<"a", ".", "p", "y">>, <<"b", ".", "j", "s">>, <<"c", ".", "t", "s">>, <<"d", ".", "t", "x", "t">>}
MaxListed == 2
LanguageLists == SeqsUpTo(LanguagePool, MaxListed)

\* The directories that are listed, one of them missing, and the values of
\* repo_context_max_files: a cap from -1 to MaxCap, the default, and a value
\* that is no number.
ListedRoots == {LocalRoot, TmpDir, <<"/", "g", "o", "n", "e">>}
MaxCap == 8
ListCaps ==
    {[ok |-> TRUE, n |-> n] : n \in (0 - 1)..MaxCap}
        \cup {DefaultMaxFiles, [ok |-> FALSE, n |-> 0]}

ResolverInit ==
    /\ cfgEnabled = "True"
    /\ cfgMaxFiles = DefaultMaxFiles
    /\ hashOrder = CHOOSE o \in LayerOrders : TRUE
    /\ provider = NoRepoProvider
    /\ analyzer \in {AnalyzerFields(fileset, None) : fileset \in ResolverFileSets}
    /\ lastCall = NoCall
    /\ cfgCacheEnabled = "Absent"
    /\ cfgTtl = [ok |-> TRUE, ticks |-> MaxTtl]
    /\ now = 0
    /\ dirState = "absent"
    /\ files = [f \in FileNames |-> NoFile]
    /\ lastOp = NoOp
    /\ purged = {}
    /\ setAt = [f \in FileNames |-> 0 - 1]
    /\ NoWriters

\* A call of one of the functions returns: only the record of the last call
\* changes.
ResolverReturns(call) ==
    /\ lastCall' = call
    /\ UNCHANGED <<cfgEnabled, cfgMaxFiles, hashOrder, provider, analyzer>>
    /\ UNCHANGED cacheVars

\* A call _resolve_js_module(file_path, module_name).
JsModuleCall(file_path, module_name) ==
    ResolverReturns(
        [NoCall EXCEPT !.op = "_resolve_js_module",
                       !.file_path = file_path,
                       !.module_name = module_name,
                       !.fileset = analyzer.repo_files_set,
                       !.resolved = _resolve_js_module(file_path, module_name,
                                                       analyzer.repo_files_set)])

\* A call _resolve_python_module(file_path, module_name).
PyModuleCall(file_path, module_name) ==
    ResolverReturns(
        [NoCall EXCEPT !.op = "_resolve_python_module",
                       !.file_path = file_path,
                       !.module_name = module_name,
                       !.fileset = analyzer.repo_files_set,
                       !.resolved = _resolve_python_module(file_path, module_name,
                                                           analyzer.repo_files_set)])

\* A call _resolve_python_imports(file_path, contents).
PyImportsCall(file_path, contents) ==
    ResolverReturns(
        [NoCall EXCEPT !.op = "_resolve_python_imports",
                       !.file_path = file_path,
                       !.contents = contents,
                       !.fileset = analyzer.repo_files_set,
                       !.resolved = _resolve_python_imports(file_path, contents,
                                                            analyzer.repo_files_set)])

\* A call _detect_primary_language(repo_files).
LanguageCall(repo_files) ==
    ResolverReturns(
        [NoCall EXCEPT !.op = "_detect_primary_language",
                       !.repo_files = Some(repo_files),
                       !.value = _detect_primary_language(repo_files)])

\* A call _list_repo_files(repo_root) under a value of
\* repo_context_max_files.
ListCall(repo_root, max_files) ==
    ResolverReturns(
        [NoCall EXCEPT !.op = "_list_repo_files",
                       !.repo_root = Some(repo_root),
                       !.max_files = max_files,
                       !.raised = _list_repo_files(repo_root, max_files).raised,
                       !.listing = _list_repo_files(repo_root, max_files).files])

ResolverNext ==
    \/ \E file_path \in JsImporters, module_name \in JsSpecifiers :
           JsModuleCall(file_path, module_name)
    \/ \E file_path \in PyImporters, module_name \in PyModuleNames :
           PyModuleCall(file_path, module_name)
    \/ \E contents \in PySources : PyImportsCall(PySourceFile, contents)
    \/ \E repo_files \in LanguageLists : LanguageCall(repo_files)
    \/ \E repo_root \in ListedRoots, max_files \in ListCaps :
           ListCall(repo_root, max_files)

SpecResolver == ResolverInit /\ [][ResolverNext]_vars

(***************************************************************************)
(* The provider as a state machine: calls of get_context_str on one        *)
(* provider and of get_repo_context, next to a cache directory.            *)
(***************************************************************************)
MaxFilesConfigs ==
    {DefaultMaxFiles, [ok |-> TRUE, n |-> 3], [ok |-> FALSE, n |-> 0]}

RepoUrl == <<"h", "t", "t", "p", "s", ":", "/", "/", "h", "/", "a", "/", "b">>
PrUrl == <<"h", "t", "t", "p", "s", ":", "/", "/", "h", "/", "a", "/", "b", "/", "p", "u", "l", "l", "/", "1">>

\* A provider with a checkout, one whose checkout is gone, one that knows
\* the URL of the repository, one whose lookup of the URL raises, and one
\* that knows nothing.
GitProviders ==
    {GitProvider(Some(LocalRoot), FALSE, RepoUrl, [raises |-> FALSE, names |-> {<<"R", "E", "A", "D", "M", "E", ".", "m", "d">>, <<"p", "k", "g">>}]),
     GitProvider(Some(<<"/", "g", "o", "n", "e">>), FALSE, RepoUrl, [raises |-> TRUE, names |-> {}]),
     GitProvider(None, FALSE, RepoUrl, [raises |-> FALSE, names |-> {<<"_", "_", "i", "n", "i", "t", "_", "_", ".", "p", "y">>, <<"a", ".", "p", "y">>}]),
     GitProvider(None, TRUE, <<>>, [raises |-> TRUE, names |-> {}]),
     NoRepoProvider}

ProviderModified == {<<>>, <<<<"p", "k", "g", "/", "a", ".", "p", "y">>>>, <<<<"s", "r", "c", "/">>>>}
PrUrls == {None, Some(PrUrl)}

\* The outcome of every call of get_context_str that is made.
ContextStrOf ==
    Tabulated([enabled \in EnabledConfigs |->
     Tabulated([order \in LayerOrders |->
      Tabulated([gp \in GitProviders |->
       Tabulated([max_files \in MaxFilesConfigs |->
        Tabulated([pr_url \in PrUrls |->
         Tabulated([fault \in ProviderFaults |->
          Tabulated([modified_files \in ProviderModified |->
            get_context_str(enabled, gp, max_files, modified_files,
                            pr_url, fault, order)])])])])])])])

\* The cache directory at start: empty, or with a record of this time in
\* every file.
ProviderInit ==
    /\ cfgEnabled \in EnabledConfigs
    /\ cfgMaxFiles \in MaxFilesConfigs
    /\ hashOrder \in LayerOrders
    /\ provider \in GitProviders
    /\ analyzer = NewAnalyzer
    /\ lastCall = NoCall
    /\ cfgCacheEnabled = "True"
    /\ cfgTtl = [ok |-> TRUE, ticks |-> MaxTtl]
    /\ now = 0
    /\ dirState = "present"
    /\ files \in {[f \in FileNames |-> NoFile],
                  [f \in FileNames |->
                      Payload(CHOOSE k \in KeysOf(f) : TRUE, TextA, NumTs(0))]}
    /\ lastOp = NoOp
    /\ purged = {}
    /\ setAt = [f \in FileNames |-> 0 - 1]
    /\ NoWriters

\* get_context_str of this call
ThisContextStr(modified_files, pr_url, fault) ==
    ContextStrOf[cfgEnabled][hashOrder][provider][cfgMaxFiles][pr_url][fault][modified_files]

\* The call op returns r.  get_context_str runs on the analyzer of this
\* provider, get_repo_context on the analyzer of a provider of its own.
ContextStrReturns(op, modified_files, pr_url, fault, r) ==
    /\ analyzer' = IF op = "get_context_str" /\ r.ran THEN r.self ELSE analyzer
    /\ lastCall' = [NoCall EXCEPT !.op = op,
                                  !.modified_files = modified_files,
                                  !.pr_url = pr_url,
                                  !.fault = fault,
                                  !.after = ListsAfter(modified_files, None,
                                                       r.appended),
                                  !.ran = r.ran,
                                  !.failed = r.trace.failed,
                                  !.raised = r.raised,
                                  !.value = r.value,
                                  !.trace = r.trace]
    /\ UNCHANGED <<cfgEnabled, cfgMaxFiles, hashOrder, provider>>
    /\ UNCHANGED cacheVars

\* A call get_context_str(modified_files, pr_url) on the provider.  Nothing
\* in it reads or writes the cache directory.
ContextStrCall(modified_files, pr_url, fault) ==
    ContextStrReturns("get_context_str", modified_files, pr_url, fault,
                      ThisContextStr(modified_files, pr_url, fault))

\* A call get_repo_context(git_provider, modified_files, pr_url).
RepoContextCall(modified_files, pr_url, fault) ==
    ContextStrReturns("get_repo_context", modified_files, pr_url, fault,
                      get_repo_context(
                          ThisContextStr(modified_files, pr_url, fault)))

ProviderNext ==
    \/ \E modified_files \in ProviderModified, pr_url \in PrUrls,
          fault \in ProviderFaults :
           ContextStrCall(modified_files, pr_url, fault)
    \/ \E modified_files \in ProviderModified, pr_url \in PrUrls,
          fault \in ProviderFaults :
           RepoContextCall(modified_files, pr_url, fault)

SpecProvider == ProviderInit /\ [][ProviderNext]_vars

(***************************************************************************)
(* Properties of the cache.                                                *)
(***************************************************************************)
\* A step that is the call get_cached_context(k) / set_cached_context(k, c):
\* the clock stands still and lastOp' names the call.
IsGetStep(k) == now' = now /\ lastOp'.op = "get" /\ lastOp'.key = k
IsSetStep(k, c) ==
    now' = now /\ lastOp'.op = "set" /\ lastOp'.key = k /\ lastOp'.text = c

\* Caching is on and the TTL is a positive number.
CacheActive == cfgCacheEnabled # "False" /\ cfgTtl.ok /\ cfgTtl.ticks > 0

\* A record with a numeric timestamp whose created_at + TTL lies before now.
IsStaleRecord(data) ==
    /\ data.kind = "object"
    /\ data.ts.num
    /\ data.ts.v * TicksPerSec + cfgTtl.ticks < now

\* C4 as stated: with caching on and TTL > 0, a get on a record older than
\* the TTL is a miss and the record's file is gone after the get.
C4_StaleGetRemovesFile ==
    [][\A k \in Keys :
          (IsGetStep(k) /\ CacheActive /\ IsStaleRecord(files[CacheFile[k]]))
              => /\ lastOp'.value = Miss
                 /\ files'[CacheFile[k]] = NoFile]_vars

\* C4 amended: the get is a miss in every case; the file is gone after the
\* get when the record could be read and its removal did not fail; and while
\* a file removed on expiry has not been written again, every get on it is
\* a miss.
C4_StaleGetMissesAndRemovesUnlessIoFails ==
    [][\A k \in Keys :
          LET f == CacheFile[k]
          IN  /\ (IsGetStep(k) /\ CacheActive /\ IsStaleRecord(files[f]))
                    => /\ lastOp'.value = Miss
                       /\ lastOp'.fault = "none"
                            => (files'[f] = NoFile /\ f \in purged')
              /\ f \in purged' => files'[f] = NoFile
              /\ (IsGetStep(k) /\ f \in purged) => lastOp'.value = Miss]_vars

\* C4 witness: a get has found a stale record and removed its file.
C4_Witness ==
    /\ lastOp.op = "get"
    /\ lastOp.removed
    /\ lastOp.value = Miss
    /\ CacheActive
    /\ files[CacheFile[lastOp.key]] = NoFile
    /\ CacheFile[lastOp.key] \in purged

\* C5 as stated: after a set without I/O failure the record of k is exactly
\* {repo: k, context: c, ts: now}, and a get(k) issued before the TTL has
\* elapsed since that set returns c when c is non-empty.
C5_SetThenGetWithinTtl ==
    [][\A k \in Keys :
          LET f == CacheFile[k]
          IN  /\ \A c \in CacheTexts :
                    (IsSetStep(k, c) /\ cfgCacheEnabled # "False" /\ dirState # "blocked"
                        /\ lastOp'.fault = "none")
                    => files'[f] = [kind |-> "object", repo |-> k, context |-> c,
                                    ts |-> [num |-> TRUE, v |-> now \div TicksPerSec]]
              /\ (IsGetStep(k) /\ CacheActive /\ lastOp'.fault = "none"
                     /\ setAt[f] >= 0 /\ files[f].repo = k
                     /\ files[f].context # EmptyText
                     /\ now < setAt[f] + cfgTtl.ticks)
                    => lastOp'.value = Hit(files[f].context)]_vars

\* C5 amended: the record is overwritten as stated, and the get returns c
\* when it is issued no later than int(set time) + int(TTL in seconds), the
\* expiry time computed from the stored whole-second timestamp.
C5_SetThenGetBeforeStoredExpiry ==
    [][\A k \in Keys :
          LET f == CacheFile[k]
          IN  /\ \A c \in CacheTexts :
                    (IsSetStep(k, c) /\ cfgCacheEnabled # "False" /\ dirState # "blocked"
                        /\ lastOp'.fault = "none")
                    => files'[f] = [kind |-> "object", repo |-> k, context |-> c,
                                    ts |-> [num |-> TRUE, v |-> now \div TicksPerSec]]
              /\ (IsGetStep(k) /\ CacheActive /\ lastOp'.fault = "none"
                     /\ setAt[f] >= 0 /\ files[f].repo = k
                     /\ files[f].context # EmptyText
                     /\ now <= ((setAt[f] \div TicksPerSec)
                                   + (cfgTtl.ticks \div TicksPerSec)) * TicksPerSec)
                    => lastOp'.value = Hit(files[f].context)]_vars

\* C5 witness: a get returned the context that a set wrote over a different
\* earlier record, some time after the set.
C5_Witness ==
    /\ lastOp.op = "get"
    /\ lastOp.value = Hit(TextB)
    /\ setAt[CacheFile[lastOp.key]] >= 0
    /\ now > setAt[CacheFile[lastOp.key]]
    /\ files[CacheFile[lastOp.key]].repo = lastOp.key

\* C6: a get is a miss when caching is disabled, when the key has no file,
\* or when the TTL is <= 0, whatever is stored; a set with caching disabled
\* changes nothing on disk.
C6_MissWhenDisabledAbsentOrNoTtl ==
    [][\A k \in Keys :
          LET f == CacheFile[k]
          IN  /\ (IsGetStep(k)
                     /\ (cfgCacheEnabled = "False" \/ files[f] = NoFile
                            \/ (cfgTtl.ok /\ cfgTtl.ticks <= 0)))
                    => lastOp'.value = Miss
              /\ \A c \in CacheTexts :
                    (IsSetStep(k, c) /\ cfgCacheEnabled = "False")
                    => (files' = files /\ dirState' = dirState)]_vars

\* C6 witness: a get missed although the file of its key holds a fresh,
\* well-formed, non-empty record of that key.
C6_Witness ==
    /\ lastOp.op = "get"
    /\ lastOp.value = Miss
    /\ cfgCacheEnabled = "False" \/ (cfgTtl.ok /\ cfgTtl.ticks <= 0)
    /\ files[CacheFile[lastOp.key]]
          = [kind |-> "object", repo |-> lastOp.key, context |-> TextA,
             ts |-> [num |-> TRUE, v |-> now \div TicksPerSec]]

\* C7: no call of get or set raises; a get that meets a missing or
\* uncreatable directory, an unreadable file, corrupt or non-object JSON or
\* a non-numeric ts returns a miss.
C7_CacheNeverRaises ==
    [][/\ lastOp'.op \in {"get", "set"} => ~lastOp'.raised
       /\ \A k \in Keys :
             LET data == files[CacheFile[k]]
             IN  (IsGetStep(k)
                    /\ (\/ dirState \in {"absent", "blocked"}
                        \/ lastOp'.fault = "open"
                        \/ data.kind \in {"garbage", "json_other"}
                        \/ (data.kind = "object" /\ ~data.ts.num)))
                   => lastOp'.value = Miss]_vars

\* C7 witness: a get with caching on found a file that is not JSON and
\* returned a miss.
C7_Witness ==
    /\ lastOp.op = "get"
    /\ cfgCacheEnabled # "False"
    /\ files[CacheFile[lastOp.key]].kind = "garbage"
    /\ ~lastOp.raised
    /\ lastOp.value = Miss

(***************************************************************************)
(* Properties of the provider.                                             *)
(***************************************************************************)
\* The last call was made on the provider.
IsProviderCall == lastCall.op \in {"get_context_str", "get_repo_context"}

\* C1: get_context_str and get_repo_context never raise; a call in which
\* the creation of the temporary directory, the clone, its removal, the
\* listing, the analysis or the formatting failed returns the empty string.
C1_ContextStrNeverRaises ==
    IsProviderCall
        => /\ ~lastCall.raised
           /\ (lastCall.trace.raisedIn # "none" \/ lastCall.failed # {})
                 => lastCall.value = <<>>

\* C1 witness: get_context_str was called, the clone raised, and the call
\* returned the empty string.
C1_Witness ==
    /\ lastCall.op = "get_context_str"
    /\ lastCall.trace.cloneCalled
    /\ lastCall.trace.raisedIn = "clone"
    /\ ~lastCall.raised
    /\ lastCall.value = <<>>

\* C2: with repo_context_enabled False or missing, get_context_str returns
\* "" for every modified_files and pr_url, and it has not resolved the
\* root, asked for the URL, made a temporary directory, cloned, listed
\* files or called the analyzer, whose fields are as they were made.
C2_DisabledReturnsEmptyWithoutWork ==
    (lastCall.op = "get_context_str" /\ cfgEnabled \in {"False", "Absent"})
        => /\ ~lastCall.raised
           /\ lastCall.value = <<>>
           /\ ~lastCall.trace.rootResolved
           /\ ~lastCall.trace.urlAsked
           /\ ~lastCall.trace.tmpCreated
           /\ ~lastCall.trace.cloneCalled
           /\ ~lastCall.trace.listed
           /\ ~lastCall.trace.analyzed
           /\ ~lastCall.ran
           /\ analyzer = NewAnalyzer

\* C2 witness: the key is missing, the provider has a checkout, and
\* get_context_str was called with a modified file and a pr_url.
C2_Witness ==
    /\ lastCall.op = "get_context_str"
    /\ cfgEnabled = "Absent"
    /\ Truthy(provider.repo_path)
    /\ IsDir(provider.repo_path.v)
    /\ lastCall.modified_files # <<>>
    /\ lastCall.pr_url # None
    /\ lastCall.value = <<>>

\* C8 as stated: when get_context_str is called with the analysis enabled
\* and a get on the cache would hit for an identity, the call returns the
\* cached text and has not resolved the root, cloned, listed or analyzed.
C8_CacheHitSkipsAnalysis ==
    \A k \in Keys :
        (/\ lastCall.op = "get_context_str"
         /\ cfgEnabled \notin {"False", "Absent"}
         /\ get_cached_context(k, "none").value.hit)
            => /\ lastCall.value = get_cached_context(k, "none").value.text
               /\ ~lastCall.trace.rootResolved
               /\ ~lastCall.trace.cloneCalled
               /\ ~lastCall.trace.listed
               /\ ~lastCall.trace.analyzed

\* C9 as stated: after a get_context_str that formatted a non-empty text,
\* a get on the cache hits with that text for some identity.
C9_FormattedTextIsStored ==
    (/\ lastCall.op = "get_context_str"
     /\ lastCall.trace.formatted
     /\ lastCall.value # <<>>)
        => \E k \in Keys :
              get_cached_context(k, "none").value = Hit(lastCall.value)

(***************************************************************************)
(* Properties of the analyzer.                                             *)
(***************************************************************************)
\* C3: every path _resolve_imports returns is in the file set the analyzer
\* holds, and every entry of related_files.imports_from of
\* get_repository_context is in the repo_files of that call.
C3_ImportTargetsInFileSet ==
    /\ lastCall.op = "_resolve_imports"
          => lastCall.resolved \subseteq lastCall.fileset.set
    /\ lastCall.op = "get_repository_context"
          => \A p \in SeqToSet(lastCall.context.related_files.imports_from) :
                /\ Truthy(lastCall.repo_files)
                /\ p \in SeqToSet(lastCall.repo_files.v)

\* C3 witness: get_repository_context for the modified pkg/a.py, which
\* imports pkg.b and os, has recorded pkg/b.py and nothing else.
C3_Witness ==
    /\ lastCall.op = "get_repository_context"
    /\ lastCall.modified_files = <<<<"p", "k", "g", "/", "a", ".", "p", "y">>>>
    /\ lastCall.repo_files = Some(FullListing)
    /\ lastCall.context.related_files.imports_from = <<<<"p", "k", "g", "/", "b", ".", "p", "y">>>>

\* C10 as stated: when exactly one sub-analysis of get_repository_context
\* fails, the returned context is not empty and all its other sections are
\* those of the sub-analyses that did not fail.
C10_OneFailureKeepsOtherSections ==
    (/\ lastCall.op = "get_repository_context"
     /\ lastCall.ran
     /\ Cardinality(lastCall.failed) = 1)
        => /\ ~lastCall.context.empty
           /\ lastCall.context.related_files
                 = _get_related_files(lastCall.modified_files,
                                      analyzer.repo_files_set,
                                      lastCall.repo_root)
           /\ lastCall.context.dependencies_impact
                 = _analyze_dependencies_impact(lastCall.modified_files)

\* C11: a call of get_repository_context made while repo_context_enabled is
\* False or missing returns the empty context and does nothing else: no
\* sub-analysis is entered, nothing is recorded as failed, and the file set
\* and the repository root the analyzer holds are those it held before the
\* call.
C11_DisabledAnalysisDoesNothing ==
    [][(/\ lastCall'.op = "get_repository_context"
        /\ cfgEnabled \in {"False", "Absent"})
          => /\ lastCall'.context = EmptyContext
             /\ ~lastCall'.ran
             /\ lastCall'.failed = {}
             /\ analyzer'.repo_files_set = analyzer.repo_files_set
             /\ analyzer'.repo_root = analyzer.repo_root]_vars

\* C11 witness: a disabled call has returned on an analyzer that holds the
\* file set and the root of an earlier, enabled call.
C11_Witness ==
    /\ lastCall.op = "get_repository_context"
    /\ cfgEnabled \in {"False", "Absent"}
    /\ lastCall.modified_files # <<>>
    /\ ~lastCall.ran
    /\ ~analyzer.repo_files_set.none
    /\ analyzer.repo_root = Some(LocalRoot)

(***************************************************************************)
(* Properties of the source of the analysis in get_context_str.            *)
(***************************************************************************)
\* get_context_str ran with the analysis enabled and nothing in its
\* environment failed
IsPlainContextStr ==
    /\ lastCall.op = "get_context_str"
    /\ cfgEnabled \notin {"False", "Absent"}
    /\ lastCall.fault = "none"
    /\ cfgMaxFiles.ok

\* the provider knows a local path that is a directory
KnowsLocalDir == Truthy(provider.repo_path) /\ IsDir(provider.repo_path.v)

\* the call asked the provider for the URL of the repository and got one
UrlWasResolved ==
    /\ lastCall.trace.urlAsked
    /\ ~provider.url_raises
    /\ provider.url # <<>>

\* the analyzer ran on the modified files alone
RanOnModifiedOnly ==
    /\ lastCall.trace.analyzed
    /\ lastCall.ran
    /\ ~lastCall.trace.listed
    /\ analyzer.repo_files_set.none
    /\ analyzer.repo_root = None

\* C12 as stated: get_context_str lists and analyzes the local directory
\* of the provider and does not clone; otherwise, with a remote URL
\* resolved, it clones into a temporary directory and lists and analyzes
\* the clone; otherwise it runs the analyzer on the modified files alone,
\* without a listing and without a clone.
C12_SourceByStrictPrecedence ==
    IsPlainContextStr
        => /\ KnowsLocalDir
                 => /\ lastCall.trace.listed
                    /\ lastCall.trace.analyzed
                    /\ ~lastCall.trace.cloneCalled
                    /\ analyzer.repo_root = provider.repo_path
           /\ (~KnowsLocalDir /\ UrlWasResolved)
                 => /\ lastCall.trace.tmpCreated
                    /\ lastCall.trace.cloneCalled
                    /\ lastCall.trace.listed
                    /\ lastCall.trace.analyzed
                    /\ analyzer.repo_root = Some(TmpDir)
           /\ (~KnowsLocalDir /\ ~UrlWasResolved)
                 => /\ RanOnModifiedOnly
                    /\ ~lastCall.trace.tmpCreated
                    /\ ~lastCall.trace.cloneCalled

\* the text get_context_str returns for the analysis of the modified files
\* alone
DegradedText ==
    LET degraded == Analysis(cfgEnabled, lastCall.modified_files, None, None,
                             hashOrder, provider.root_listing)
    IN  IF degraded.context.empty THEN <<>>
        ELSE _format_context(degraded.context)

\* C13 as stated: when no root is determined, when clone returns no handle
\* and when clone raises, get_context_str runs the analyzer on the modified
\* files alone and returns the formatted text of that analysis.
C13_FailedResolutionDegrades ==
    (/\ lastCall.op = "get_context_str"
     /\ cfgEnabled \notin {"False", "Absent"}
     /\ \/ lastCall.fault = "none" /\ ~Truthy(provider.repo_path)
                                   /\ ~UrlWasResolved
        \/ lastCall.fault \in {"clone_none", "clone_raises"}
              /\ lastCall.trace.cloneCalled)
        => /\ RanOnModifiedOnly
           /\ lastCall.value = DegradedText

LineStart(text, j) ==
    SetMax({0} \cup {k \in 1..(j - 1) : text[k] = "\n"}) + 1

\* the line that ends at the newline j of text is a section header and
\* the line after it is empty or missing
EmptySectionAt(text, j) ==
    /\ text[j] = "\n"
    /\ j = Len(text) \/ text[j + 1] = "\n"
    /\ LineStart(text, j) + 2 <= j
    /\ text[LineStart(text, j)] = "#"
    /\ text[LineStart(text, j) + 1] = "#"
    /\ text[LineStart(text, j) + 2] = " "

\* C15 as stated: in the text _format_context makes of a context, every
\* section header is followed by a content line; a section without content
\* has no header.
C15_NoEmptySection ==
    (IsProviderCall /\ lastCall.trace.formatted)
        => \A j \in 1..Len(lastCall.value) : ~EmptySectionAt(lastCall.value, j)

IsAnalyzed ==
    /\ lastCall.op = "get_repository_context"
    /\ lastCall.ran
    /\ ~lastCall.context.empty

\* the files the sub-analyses of the call were given
AnalyzedFiles == AnalysisFiles(lastCall.repo_files, lastCall.modified_files)

\* the directory repo_root of the call holds a file __init__.py
RootHasPackageMarker ==
    /\ Truthy(lastCall.repo_root)
    /\ pathjoin(lastCall.repo_root.v, <<"_", "_", "i", "n", "i", "t", "_", "_", ".", "p", "y">>) \in DOMAIN DiskContents

\* C18 as stated: architecture_type is "microservices" when a path holds
\* "service" and a path holds "api"; else "mvc" when "models", "views" or
\* "controllers" is an element of the list; else "modular" when the root of
\* the repository holds __init__.py; else "monolithic".
C18_ArchitectureByFirstMatch ==
    IsAnalyzed
        => lastCall.context.architectural_patterns.architecture_type
             = (IF /\ \E i \in 1..Len(AnalyzedFiles) :
                         Contains(AnalyzedFiles[i], <<"s", "e", "r", "v", "i", "c", "e">>)
                   /\ \E i \in 1..Len(AnalyzedFiles) :
                         Contains(AnalyzedFiles[i], <<"a", "p", "i">>)
                THEN <<"m", "i", "c", "r", "o", "s", "e", "r", "v", "i", "c", "e", "s">>
                ELSE IF \E i \in 1..Len(AnalyzedFiles) :
                           AnalyzedFiles[i] \in {<<"m", "o", "d", "e", "l", "s">>, <<"v", "i", "e", "w", "s">>, <<"c", "o", "n", "t", "r", "o", "l", "l", "e", "r", "s">>}
                THEN <<"m", "v", "c">>
                ELSE IF RootHasPackageMarker THEN <<"m", "o", "d", "u", "l", "a", "r">>
                ELSE <<"m", "o", "n", "o", "l", "i", "t", "h", "i", "c">>)


\* the number of the analyzed files whose basename satisfies Test
NamedLike(Test(_)) ==
    Cardinality({i \in 1..Len(AnalyzedFiles) : Test(basename(AnalyzedFiles[i]))})

IsSnakeName(b) == Contains(b, <<"_">>)
IsKebabName(b) == Contains(b, <<"-">>)
IsCamelName(b) ==
    /\ b # <<>>
    /\ b[1] \in LowerChars
    /\ \E i \in 1..Len(b) : b[i] \in UpperChars

\* the convention whose count is above both other counts, or "unknown"
StrictMajority(snake, kebab, camel) ==
    IF snake > kebab /\ snake > camel THEN <<"s", "n", "a", "k", "e", "_", "c", "a", "s", "e">>
    ELSE IF kebab > snake /\ kebab > camel THEN <<"k", "e", "b", "a", "b", "_", "c", "a", "s", "e">>
    ELSE IF camel > snake /\ camel > kebab THEN <<"c", "a", "m", "e", "l", "C", "a", "s", "e">>
    ELSE <<"u", "n", "k", "n", "o", "w", "n">>

\* the test file names of source_file X.py: X_test.py and X.test.py
PyTestVariants(source_file) ==
    LET X == SubSeq(source_file, 1, Len(source_file) - 3)
    IN  {X \o <<"_", "t", "e", "s", "t", ".", "p", "y">>, X \o <<".", "t", "e", "s", "t", ".", "p", "y">>}

\* C19 as stated: for a modified file X.py with X_test.py in the file set
\* of the analysis, related_files.test_files holds X_test.py or another
\* test file name of X that is in the file set; and every entry of
\* test_files, config_files and documentation_files is in the file set.
C19_TestFileOfModifiedFile ==
    IsAnalyzed
        => /\ \A i \in 1..Len(lastCall.modified_files) :
                LET source_file == lastCall.modified_files[i]
                IN  (/\ EndsWith(source_file, <<".", "p", "y">>)
                     /\ _file_exists_in_repo(
                            SubSeq(source_file, 1, Len(source_file) - 3) \o <<"_", "t", "e", "s", "t", ".", "p", "y">>,
                            analyzer.repo_files_set))
                      => \E t \in SeqToSet(lastCall.context.related_files.test_files) :
                            /\ t \in PyTestVariants(source_file)
                                       \cup SeqToSet(TestDirCandidates(source_file))
                            /\ t \in analyzer.repo_files_set.set
           /\ \A t \in SeqToSet(lastCall.context.related_files.test_files)
                         \cup SeqToSet(lastCall.context.related_files.config_files)
                         \cup SeqToSet(lastCall.context.related_files.documentation_files) :
                  t \in analyzer.repo_files_set.set

\* C20 as stated: file_naming is "snake_case", "kebab_case" or "camelCase"
\* when the count of the basenames of that convention is above the counts
\* of both others, and "unknown" when the highest count is shared or all
\* counts are zero.
C20_NamingByStrictMajority ==
    IsAnalyzed
        => lastCall.context.language_specific_conventions.naming_conventions.file_naming
              = StrictMajority(NamedLike(IsSnakeName), NamedLike(IsKebabName),
                               NamedLike(IsCamelName))


(***************************************************************************)
(* Properties of the cache file under calls at the same time               *)
(***************************************************************************)
\* The callers whose set_cached_context has begun.
Started == {w \in Writers : setCalls[w].pc # "idle"}

\* Every call that has begun is for repository k.
AllSetsFor(k) == \A w \in Started : setCalls[w].key = k

\* The file follows its characters.
FilesAreDecodedText == \A f \in FileNames : files[f] = Decoded(fileText[f])

\* C17: when calls of set_cached_context for one repository run at the same
\* time, among themselves and with calls of get_cached_context, every get
\* returns a miss or exactly the context of one of the sets, and once every
\* set has returned after writing, the file holds the complete payload of
\* one of them.
C17_ConcurrentWritersLeaveOnePayload ==
    /\ (lastOp.op = "get" /\ AllSetsFor(lastOp.key))
          => \/ lastOp.value = Miss
             \/ \E w \in Started : lastOp.value = Hit(setCalls[w].context)
    /\ \A k \in Keys :
          (/\ Started # {}
           /\ AllSetsFor(k)
           /\ \A w \in Started : setCalls[w].pc = "returned" /\ setCalls[w].wrote)
            => \E w \in Started :
                   fileText[CacheFile[k]] = TextOf(setCalls[w].payload)


(***************************************************************************)
(* Properties of the resolvers and of the language detection               *)
(***************************************************************************)
\* The specifier is relative: it starts with "./" or "../".
IsRelativeSpecifier(module_name) ==
    StartsWith(module_name, <<".", "/">>) \/ StartsWith(module_name, <<".", ".", "/">>)

\* The candidates of a specifier imported from file_path, as stated: the
\* normalized join alone when the specifier carries an extension, otherwise
\* the join with each extension, and the index file under it with each.
StatedJsCandidates(file_path, module_name) ==
    LET joined == normpath(pathjoin(dirname(file_path), module_name))
    IN  IF splitext(module_name)[2] # <<>> THEN {joined}
        ELSE {joined \o JsExtensions[i] : i \in 1..Len(JsExtensions)}
               \cup {joined \o <<"/", "i", "n", "d", "e", "x">> \o JsExtensions[i]
                       : i \in 1..Len(JsExtensions)}

\* C21: _resolve_js_module of a relative specifier returns exactly the
\* members of the file set among the candidates: the normalized join of the
\* directory of the importing file and the specifier alone when the
\* specifier carries an extension, otherwise that path with each of the six
\* extensions and that path plus /index with each of them.
C21_JsModuleCandidatesInFileSet ==
    (/\ lastCall.op = "_resolve_js_module"
     /\ IsRelativeSpecifier(lastCall.module_name)
     /\ ~lastCall.fileset.none)
        => lastCall.resolved
             = StatedJsCandidates(lastCall.file_path, lastCall.module_name)
                 \cap lastCall.fileset.set

\* The components of a directory path; the root directory "" has none.
DirComps(d) == IF d = <<>> THEN <<>> ELSE Split(d, <<"/">>)

\* The path of a sequence of components under the import root.
UnderRoot(comps, name) ==
    IF comps = <<>> THEN name ELSE Join(comps, <<"/">>) \o <<"/">> \o name

\* The target of a module name imported from file_path, as stated: with n
\* leading dots, n - 1 levels above the directory of the file, then the
\* dotted rest as subdirectories; without leading dots, the dotted name
\* from the import root.
StatedPyTarget(file_path, module_name) ==
    LET rest == LStripChar(module_name, ".")
        n == Len(module_name) - Len(rest)
        d == DirComps(dirname(file_path))
        sub == IF rest = <<>> THEN <<>> ELSE Split(rest, <<".">>)
    IN  IF n = 0 THEN sub ELSE SubSeq(d, 1, Len(d) - (n - 1)) \o sub

\* target.py and target/__init__.py
StatedPyCandidates(target) ==
    {Join(target, <<"/">>) \o <<".", "p", "y">>, UnderRoot(target, <<"_", "_", "i", "n", "i", "t", "_", "_", ".", "p", "y">>)}

\* The number of leading dots of a module name.
LeadingDots(module_name) == Len(module_name) - Len(LStripChar(module_name, "."))

\* C22: for a module name with n >= 1 leading dots imported from a file in
\* directory d that has n - 1 levels above it, _resolve_python_module
\* returns exactly those of target.py and target/__init__.py that are in the
\* file set, where target is n - 1 levels above d followed by the dotted
\* rest as subdirectories; a name without leading dots is resolved from the
\* import root, wherever the importing file is.
C22_PyModuleByLeadingDots ==
    (/\ lastCall.op = "_resolve_python_module"
     /\ lastCall.module_name # <<>>
     /\ ~lastCall.fileset.none
     /\ LeadingDots(lastCall.module_name) - 1
           <= Len(DirComps(dirname(lastCall.file_path))))
        => lastCall.resolved
             = StatedPyCandidates(StatedPyTarget(lastCall.file_path,
                                                 lastCall.module_name))
                 \cap lastCall.fileset.set

\* The number of paths of a list whose extension is that of entry n of the
\* extension table.
CountOfLanguage(repo_files, n) ==
    Cardinality({i \in 1..Len(repo_files) :
                    splitext(repo_files[i])[2] = LanguageMap[n].ext})

\* The entries of the extension table with the highest count.
TopLanguages(repo_files) ==
    {n \in 1..Len(LanguageMap) :
        /\ CountOfLanguage(repo_files, n) > 0
        /\ \A k \in 1..Len(LanguageMap) :
               CountOfLanguage(repo_files, k) <= CountOfLanguage(repo_files, n)}

\* C24: _detect_primary_language returns the language with the highest
\* count of files by extension, among several with the highest count the one
\* declared first in the extension table, whatever the order of the paths,
\* and "unknown" when no extension is in the table.
C24_PrimaryLanguageByTableOrder ==
    lastCall.op = "_detect_primary_language"
        => lastCall.value
             = IF TopLanguages(lastCall.repo_files.v) = {} THEN <<"u", "n", "k", "n", "o", "w", "n">>
               ELSE LanguageMap[SetMin(TopLanguages(lastCall.repo_files.v))].language

\* C25: _resolve_js_module of a specifier that starts with neither "./" nor
\* "../" returns the empty set, whatever the file set holds.
C25_OnlyRelativeSpecifiersResolve ==
    (/\ lastCall.op = "_resolve_js_module"
     /\ ~IsRelativeSpecifier(lastCall.module_name))
        => lastCall.resolved = {}

\* The modules listed by a line that is a statement "import a[, b...]", each
\* without its "as" part; none for any other line.
ListedModules(line) ==
    IF ~StartsWith(line, <<"i", "m", "p", "o", "r", "t", " ">>) THEN {}
    ELSE LET parts == Split(SubSeq(line, 8, Len(line)), <<",">>)
         IN  {Strip(Split(Strip(parts[i]), <<" ", "a", "s", " ">>)[1]) : i \in 1..Len(parts)}

\* The lines of a source.
LinesOf(contents) == SeqToSet(Split(contents, <<"\n">>))

\* C30: every statement "import a[, b...]" on a line of its own in a .py
\* source gives an edge to each listed module whose a.py or a/__init__.py is
\* in the file set, whatever the lines after it hold.
C30_EveryImportLineGivesItsEdges ==
    (/\ lastCall.op = "_resolve_python_imports"
     /\ ~lastCall.fileset.none)
        => \A line \in LinesOf(lastCall.contents) :
             \A module \in ListedModules(line) :
                 (StatedPyCandidates(Split(module, <<".">>))
                      \cap lastCall.fileset.set) \subseteq lastCall.resolved


(***************************************************************************)
(* Properties of the import lists of the context                           *)
(***************************************************************************)
\* The files that the import statements of file f of the checkout resolve
\* to, in the file set the analyzer holds.
ImportTargets(f) ==
    IF ~_is_import_scannable(f) THEN {}
    ELSE _resolve_imports(f, _read_repo_file(f, lastCall.repo_root),
                          analyzer.repo_files_set)

\* get_repository_context returned a context and was given a root and a
\* list of repository files
IsAnalyzedWithTree ==
    /\ IsAnalyzed
    /\ Truthy(lastCall.repo_root)
    /\ Truthy(lastCall.repo_files)

\* C23: after get_repository_context with a root and a file set,
\* imports_from is exactly the set of the members of the file set that the
\* import statements of some modified file resolve to, and imported_by is
\* exactly the set of the scannable members of the file set whose import
\* statements resolve to some modified file.
C23_ImportListsOfModifiedFiles ==
    IsAnalyzedWithTree
        => /\ SeqToSet(lastCall.context.related_files.imports_from)
                = UNION {ImportTargets(f) : f \in SeqToSet(lastCall.modified_files)}
           /\ SeqToSet(lastCall.context.related_files.imported_by)
                = {f \in analyzer.repo_files_set.set :
                      ImportTargets(f) \cap SeqToSet(lastCall.modified_files) # {}}

(***************************************************************************)
(* Properties of the listing of the repository.                            *)
(***************************************************************************)
\* a path below a directory named .git, .hg or .svn
UnderVcsDir(p) ==
    \E n \in 1..(Len(Split(p, <<"/">>)) - 1) : Split(p, <<"/">>)[n] \in VcsDirs

\* the files of a directory that are not below a version-control directory
ListableFiles(repo_root) ==
    IF repo_root \in {LocalRoot, TmpDir}
    THEN {RepoTree[i].path : i \in {j \in 1..Len(RepoTree) : ~UnderVcsDir(RepoTree[j].path)}}
    ELSE {}

\* the same files in the order in which the walk meets them
ListableInOrder(repo_root) ==
    IF repo_root \in {LocalRoot, TmpDir}
    THEN SelectSeq([i \in 1..Len(RepoTree) |-> RepoTree[i].path],
                   LAMBDA p : ~UnderVcsDir(p))
    ELSE <<>>

\* C26: a listing that returns holds no more paths than a positive cap: the
\* first files the walk meets, as many as the cap when the directory has
\* that many; it holds every file when the cap is 0; it holds no path below
\* .git, .hg or .svn, and holds each file once as a relative path written
\* with forward slashes.
C26_ListingCappedPrunedRelative ==
    (lastCall.op = "_list_repo_files" /\ ~lastCall.raised) =>
        LET listing == lastCall.listing
            cap == lastCall.max_files.n
            all == ListableFiles(lastCall.repo_root.v)
        IN  /\ cap > 0 =>
                /\ Len(listing) <= cap
                /\ Len(listing) = cap \/ SeqToSet(listing) = all
            /\ cap = 0 => SeqToSet(listing) = all
            /\ listing = SubSeq(ListableInOrder(lastCall.repo_root.v), 1, Len(listing))
            /\ \A i \in 1..Len(listing) :
                   /\ listing[i] \in all
                   /\ ~UnderVcsDir(listing[i])
                   /\ Head(listing[i]) # "/"
                   /\ \A n \in 1..Len(listing[i]) : listing[i][n] # "\\"
                   /\ \A j \in 1..Len(listing) : listing[j] = listing[i] => j = i

\* a listing cut at a cap of 3 in a directory that has more files and has
\* files below version-control directories
C26_Witness ==
    /\ lastCall.op = "_list_repo_files"
    /\ ~lastCall.raised
    /\ lastCall.max_files.n = 3
    /\ Len(lastCall.listing) = 3
    /\ Cardinality(ListableFiles(lastCall.repo_root.v)) > 3
    /\ \E i \in 1..Len(RepoTree) : UnderVcsDir(RepoTree[i].path)

(***************************************************************************)
(* Properties of the cache across repository identities.                   *)
(***************************************************************************)
\* C27: a call get_cached_context(k) that returns a context reads a record
\* that a set_cached_context stored under k itself: when the file it reads
\* was last written by a set of this behaviour, the repo field of the record
\* is k.
C27_KeysNeverShareARecord ==
    (/\ lastOp.op = "get"
     /\ lastOp.value.hit
     /\ setAt[CacheFile[lastOp.key]] >= 0) =>
        files[CacheFile[lastOp.key]].repo = lastOp.key

(***************************************************************************)
(* Properties of the expiry cleanup beside a writer.                       *)
(***************************************************************************)
\* The file holds a record that a completed set_cached_context wrote and
\* that is within its time to live.
HoldsFreshRecord(f) ==
    /\ setAt[f] >= 0
    /\ files[f].kind = "object"
    /\ files[f].ts.num
    /\ ~IsExpired(files[f].ts.v, cfgTtl.ticks, now)

\* C28: the os.remove of a get_cached_context that has read an expired
\* record leaves the file as it is when a set_cached_context has completed
\* since the read and the file holds its fresh record.
C28_CleanupKeepsFreshRecord ==
    [][(/\ getCall.pc = "removing"
        /\ getCall'.pc = "idle"
        /\ HoldsFreshRecord(CacheFile[getCall.key]))
          => files'[CacheFile[getCall.key]] = files[CacheFile[getCall.key]]]_vars

(***************************************************************************)
(* Properties of the analyzer across its calls.                            *)
(***************************************************************************)
\* C29: an enabled call of get_repository_context leaves in the analyzer the
\* file set of its own list of repository files, none when it has no list,
\* and its own root, whatever the analyzer held before; and a call without
\* a list returns no test, configuration or documentation files and no
\* import edges.
C29_EachCallUsesItsOwnFileSet ==
    (lastCall.op = "get_repository_context" /\ lastCall.ran) =>
        /\ analyzer.repo_root = lastCall.repo_root
        /\ analyzer.repo_files_set =
              (IF Truthy(lastCall.repo_files)
               THEN FileSetOf(SeqToSet(lastCall.repo_files.v))
               ELSE NoFileSet)
        /\ ~Truthy(lastCall.repo_files) =>
              /\ lastCall.context.related_files.test_files = <<>>
              /\ lastCall.context.related_files.config_files = <<>>
              /\ lastCall.context.related_files.documentation_files = <<>>
              /\ lastCall.context.related_files.imports_from = <<>>
              /\ lastCall.context.related_files.imported_by = <<>>

\* an enabled call without a list and without a root, of modified files
\* that have companions in the tree, on an analyzer that held the file set
\* of an earlier call, returns a context
C29_Witness ==
    /\ lastCall.op = "get_repository_context"
    /\ lastCall.ran
    /\ ~lastCall.context.empty
    /\ lastCall.repo_files = None
    /\ lastCall.repo_root = None
    /\ lastCall.modified_files = <<<<"p", "k", "g", "/", "a", ".", "p", "y">>>>
    /\ lastCall.held_files
    /\ analyzer = NewAnalyzer

====
